---- MODULE Spec2Model ----
(***************************************************************************)
(* A model of jolo's reconciliation core: the container runtime's table,   *)
(* the git worktree registry, the filesystem and the host's ports are the  *)
(* state; the commands (up, tree, down, prune, delete) are the operations. *)
(* A command is a sequence of blocking external calls, so it is modelled   *)
(* as a sequential process whose position is pc and whose external calls   *)
(* are recorded, in order, in log.                                         *)
(***************************************************************************)
EXTENDS Integers, Sequences, FiniteSets, TLC

----------------------------------------------------------------------------
(* Paths.  A path is the tuple of its components, so that Path.name and    *)
(* Path.parent are computed as pathlib computes them.                      *)

None == "None"

Name(p) == IF Len(p) = 0 THEN "" ELSE p[Len(p)]

Parent(p) == IF Len(p) = 0 THEN p ELSE SubSeq(p, 1, Len(p) - 1)

RECURSIVE PathStr(_)
PathStr(p) == IF Len(p) = 0 THEN "" ELSE PathStr(Parent(p)) \o "/" \o Name(p)

\* worktree.py get_worktree_path: <parent>/<project>-worktrees/<name>
get_worktree_path(project_path, worktree_name) ==
    Append(Append(Parent(project_path), Name(project_path) \o "-worktrees"),
           worktree_name)

Main == <<"h", "app">>

Other == <<"h", "other">>

Outside == <<"tmp">>

WtNames == {"1-x", "2-x"}

WtFolders == {get_worktree_path(Main, n) : n \in WtNames}

\* a project of the same directory name under another parent, and a worktree
\* of it
TwinMain == <<"g", "app">>

Twin == get_worktree_path(TwinMain, "feat")

Folders == {Main, Other, Twin} \cup WtFolders

\* the order in which the runtime's ps lists the containers
FolderSeq ==
    <<Main, get_worktree_path(Main, "1-x"), get_worktree_path(Main, "2-x"), Other, Twin>>

Images == {"img1", "img2"}

\* constants.py
PORT_MIN == 4000

PORT_MAX == 5000

\* constants.py DEFAULT_CONFIG["base_port"]
base_port == 4000

random_port_open == PORT_MIN..(PORT_MAX + 1)

\* cli.py random_port: random.randint(PORT_MIN, PORT_MAX), both ends included
random_port == PORT_MIN..PORT_MAX

\* the draws the model follows: the two lowest ports and the highest
RandomPorts ==
    {p \in random_port :
        \/ p < PORT_MIN + 2
        \/ \A q \in random_port : q <= p}

\* read_port_from_devcontainer's None
NoPort == 0

\* str.lower() on the strings the model holds
Lower(s) ==
    CASE s = "Y" -> "y"
      [] s = "N" -> "n"
      [] s = "YES" -> "yes"
      [] s = " Y" -> " y"
      [] OTHER -> s

\* str.strip() on the strings the model holds
Strip(s) ==
    CASE s = " y" -> "y"
      [] s = " Y" -> "Y"
      [] OTHER -> s

\* cli.py get_container_name
get_container_name(project_path, worktree_name) ==
    IF worktree_name # None THEN Lower(Name(project_path)) \o "-" \o worktree_name
    ELSE Lower(Name(project_path))

\* no row in the runtime's table
Absent == [state |-> "absent", image |-> "", name |-> "", pub |-> NoPort]

\* no .devcontainer/devcontainer.json
NoCfg == [exists |-> FALSE, name |-> "", port |-> NoPort, pub |-> NoPort, mounts |-> <<>>]

\* constants.py BASE_MOUNTS, one entry standing for the list
BASE_MOUNTS ==
    <<"source=${localEnv:HOME}/.zshrc,target=/home/${localEnv:USER}/.zshrc,type=bind,readonly">>

\* container.py build_devcontainer_json: --name project_name, -p port:port,
\* containerEnv.PORT = port, mounts = BASE_MOUNTS
build_devcontainer_json(project_name, port) ==
    [exists |-> TRUE, name |-> project_name, port |-> port, pub |-> port,
     mounts |-> BASE_MOUNTS]

\* f"source={main_git_dir},target={main_git_dir},type=bind"
git_mount(main_git_dir) ==
    "source=" \o PathStr(main_git_dir) \o ",target=" \o PathStr(main_git_dir) \o ",type=bind"

\* setup.py add_worktree_git_mount: content["mounts"].append(git_mount)
add_worktree_git_mount(content, main_git_dir) ==
    [content EXCEPT !.mounts = Append(@, git_mount(main_git_dir))]

----------------------------------------------------------------------------
VARIABLES
    runtime,             \* "docker" or None: what shutil.which finds
    foreign,             \* host ports bound by processes that are no devcontainer
    container,           \* the runtime's table: folder label -> [state, image, name, pub]
    images,              \* the image IDs in the runtime's store
    dirExists,           \* the filesystem: folder -> BOOLEAN
    registered,          \* git's worktree registry of Main (linked worktrees)
    branches,            \* the branches of Main's repository besides main
    cfg,                 \* folder -> its devcontainer.json: [exists, name, port, pub,
                         \* mounts]
    ncmd,                \* commands begun so far
    streak,              \* the up calls without --new in a row on one folder:
                         \* the folder, whether it had a container at first,
                         \* the starts issued, those that changed the
                         \* container to running, those that created one
    ws,                  \* workspace_dir of devcontainer_up
    selected,            \* run_delete_mode's target: [type, path, git_root]
    wt_list,             \* _delete_project's worktrees
    containers,          \* _delete_project's containers
    pc,                  \* the running command's position, "idle" between commands
    cmd,                 \* the running (or last) command and its arguments
    stopped_containers,  \* run_prune_mode's locals
    orphan_containers,
    stale_worktrees,
    potential_images,
    in_use_images,
    todo,                \* the rest of the list the current loop iterates over
    log,                 \* the external calls of the running (or last) command
    exit,                \* the last command's exit status: "none", 0 or 1
    nfail,               \* external calls that failed for no reason the model holds
    snap,                \* the world as it was when the running command began
    fcall,               \* a function run by itself: its position, arguments
                         \* and locals
    processes,           \* spawn: the processes Popen launched, in launch order:
                         \* [path, ended, returncode]
    failed               \* spawn: the path names whose process exited non-zero

world == <<runtime, foreign, container, images, dirExists, registered, branches, cfg>>

pruneLocals == <<stopped_containers, orphan_containers, stale_worktrees,
                 potential_images, in_use_images>>

deleteLocals == <<ws, selected, wt_list, containers>>

spawnLocals == <<processes, failed>>

vars == <<runtime, foreign, container, images, dirExists, registered, branches,
          cfg, ncmd, streak, ws, selected, wt_list, containers, pc, cmd,
          stopped_containers, orphan_containers, stale_worktrees,
          potential_images, in_use_images, todo, log, exit, nfail, snap, fcall, processes, failed>>

----------------------------------------------------------------------------
(* The external systems, as the commands observe and change them.          *)

Call(op, tgt) == [op |-> op, tgt |-> tgt]

\* str(bool)
Bool(b) == IF b THEN "True" ELSE "False"

\* the most external calls of one run that fail although they could succeed
MaxFailures == 1

\* an external call's outcome: it fails when it cannot succeed, and may fail
\* anyway (a daemon hiccup, a permission, a lock)
Charge(n) == nfail + n <= MaxFailures /\ nfail' = nfail + n

\* 1 if the call fails although it could succeed
Vol(ok, possible) == IF ~ok /\ possible THEN 1 ELSE 0

Outcome(ok, possible) == (ok => possible) /\ Charge(Vol(ok, possible))

\* a query's outcome; one that is not made has none
Query(made, ok) == (~made => ok) /\ Charge(Vol(ok, made))

Failed(oks) == Cardinality({i \in DOMAIN oks : ~oks[i]})

MapSeq(s, F(_)) == [i \in 1..Len(s) |-> F(s[i])]

\* the runtime keeps the names of its containers unique
FolderOfName(n) == CHOOSE f \in Folders : container[f].name = n

\* Path(folder).exists()
PathExists(p) == IF p \in Folders THEN dirExists[p] ELSE p = Outside

\* cli.py find_git_root: the nearest directory upward holding .git
find_git_root(start) == IF start \in Folders /\ dirExists[start] THEN start ELSE None

\* container.py get_container_runtime
get_container_runtime == runtime

\* container.py list_all_devcontainers: (name, folder, state, image_id) rows of
\* ps -a; a failed query is the empty list
list_all_devcontainers(ps_ok) ==
    IF get_container_runtime = None \/ ~ps_ok THEN <<>>
    ELSE MapSeq(SelectSeq(FolderSeq, LAMBDA f : container[f].state # "absent"),
                LAMBDA f : <<container[f].name, f, container[f].state,
                             container[f].image>>)

\* variant: every container counts as the project's
find_containers_of_any_project(git_root, state_filter, ps_ok) ==
    IF get_container_runtime = None THEN <<>>
    ELSE SelectSeq(list_all_devcontainers(ps_ok), LAMBDA c :
            state_filter = None \/ c[3] = state_filter)

\* container.py find_containers_for_project
find_containers_for_project(git_root, state_filter, ps_ok) ==
    IF get_container_runtime = None THEN <<>>
    ELSE SelectSeq(list_all_devcontainers(ps_ok), LAMBDA c :
            /\ \/ c[2] = git_root
               \/ Name(Parent(c[2])) = Name(git_root) \o "-worktrees"
            /\ (state_filter = None \/ c[3] = state_filter))

\* container.py find_stopped_containers_for_project: (name, folder, image_id)
find_stopped_containers_for_project(git_root, ps_ok) ==
    MapSeq(SelectSeq(find_containers_for_project(git_root, None, ps_ok),
                     LAMBDA c : c[3] # "running"),
           LAMBDA c : <<c[1], c[2], c[4]>>)

\* commands.py run_prune_global_mode: the rows whose state is not running
StoppedRows(rows) ==
    MapSeq(SelectSeq(rows, LAMBDA c : c[3] # "running"),
           LAMBDA c : <<c[1], c[2], c[4]>>)

\* commands.py run_prune_mode: running, and the workspace folder is gone
\* variant: every running container counts as an orphan
OrphanRowsAnyRunning(rows) ==
    MapSeq(SelectSeq(rows, LAMBDA c : c[3] = "running"),
           LAMBDA c : <<c[1], c[2], c[4]>>)

OrphanRows(rows) ==
    MapSeq(SelectSeq(rows, LAMBDA c : c[3] = "running" /\ ~PathExists(c[2])),
           LAMBDA c : <<c[1], c[2], c[4]>>)

\* worktree.py list_worktrees: (path, commit, branch), the main checkout
\* first; a failed query is the empty list
list_worktrees(git_root, git_ok) ==
    IF ~git_ok \/ find_git_root(git_root) = None THEN <<>>
    ELSE IF git_root = Other THEN <<<<Other, "abc1234", "main">>>>
    ELSE IF ~dirExists[Main] THEN <<>>
    ELSE <<<<Main, "abc1234", "main">>>> \o
         MapSeq(SelectSeq(FolderSeq, LAMBDA f : f \in registered),
                LAMBDA f : <<f, "def5678", Name(f)>>)

\* variant: every linked worktree counts as stale
find_unchecked_worktrees(git_root, git_ok) ==
    MapSeq(SelectSeq(list_worktrees(git_root, git_ok), LAMBDA w : w[1] # git_root),
           LAMBDA w : <<w[1], w[3]>>)

\* worktree.py find_stale_worktrees: (path, branch)
find_stale_worktrees(git_root, git_ok) ==
    MapSeq(SelectSeq(list_worktrees(git_root, git_ok),
                     LAMBDA w : w[1] # git_root /\ ~PathExists(w[1])),
           LAMBDA w : <<w[1], w[3]>>)

\* commands.py run_prune_mode: {c[2] for c in stopped + orphan if c[2]}
PotentialImages(stopped, orphans) ==
    {(stopped \o orphans)[i][3] : i \in 1..Len(stopped \o orphans)} \ {""}

\* commands.py run_prune_mode: {c[3] for c in remaining_containers if c[3]}
InUseImages(remaining) == {remaining[i][4] : i \in 1..Len(remaining)} \ {""}

\* the runtime: stop succeeds only on an existing container
CanStop(n) == \E f \in Folders : container[f].name = n /\ container[f].state # "absent"

\* the runtime: rm (without -f) succeeds only on an existing container that is
\* not running
CanRemove(n) ==
    \E f \in Folders : container[f].name = n /\ container[f].state = "exited"

\* the runtime: rmi (without -f) succeeds only on a stored image that no
\* container references
CanRemoveImage(id) ==
    id \in images /\ \A f \in Folders : container[f].image # id

\* all orders in which a set can be iterated
Orders(S) == {s \in [1..Cardinality(S) -> S] : \A x \in S : \E i \in DOMAIN s : s[i] = x}

----------------------------------------------------------------------------
(* prune: commands.py run_prune_mode and run_prune_global_mode.             *)

Answers == {"y", "Y", " y", "n", "N", "", "yes"}

\* EOFError or KeyboardInterrupt raised by input()
Interrupt == "^C"

\* a command returns (exit status 0) or calls sys.exit (status 1)
Finish(status) == pc' = "done" /\ exit' = status

\* no function is run by itself
NoCall == [fn |-> "none"]

NoStreak == [ws |-> None, had |-> FALSE, starts |-> 0, effective |-> 0, created |-> 0]

\* the most commands of one run
MaxCmds == 1

\* the most up, tree and spawn commands of one run
MaxUps == 2

NoLocals ==
    /\ stopped_containers' = <<>>
    /\ orphan_containers' = <<>>
    /\ stale_worktrees' = <<>>
    /\ potential_images' = {}
    /\ in_use_images' = {}
    /\ todo' = <<>>

Snapshot == [container |-> container, dirExists |-> dirExists,
             registered |-> registered, images |-> images]

\* run_prune_mode dispatches to run_prune_global_mode
PruneIsGlobal(c) == c.all \/ find_git_root(c.cwd) = None

\* variant: the emptiness test forgets the stale worktrees' sense
PruneNothingInverted(stopped, orphans, stale) ==
    stopped = <<>> /\ orphans = <<>> /\ stale # <<>>

\* if not stopped_containers and not orphan_containers and not stale_worktrees
PruneNothing(stopped, orphans, stale) ==
    stopped = <<>> /\ orphans = <<>> /\ stale = <<>>

ConfirmedOrEmpty(answer) == answer # Interrupt /\ Lower(answer) \in {"y", ""}

\* if response.lower() != "y": Cancelled
Confirmed(answer) == answer # Interrupt /\ Lower(answer) = "y"

\* variant: a failed call ends the loop
RestAbort(ok, list) == IF ok THEN Tail(list) ELSE <<>>

\* a for loop goes on to the next item whatever the call returned
Rest(ok, list) == Tail(list)

\* variant: containers are removed before the orphans are stopped
PrunePhaseSwapped(phase, global) ==
    CASE phase = "prune_prompt" -> "prune_rm"
      [] phase = "prune_rm" -> "prune_stop"
      [] phase = "prune_stop" -> IF global THEN "prune_images" ELSE "prune_wt"
      [] phase = "prune_wt" -> "prune_images"

\* the order of the phases of a confirmed prune
PrunePhaseAfter(phase, global) ==
    CASE phase = "prune_prompt" -> "prune_stop"
      [] phase = "prune_stop" -> "prune_rm"
      [] phase = "prune_rm" -> IF global THEN "prune_images" ELSE "prune_wt"
      [] phase = "prune_wt" -> "prune_images"

\* variant: the orphans are stopped and left in place
PruneListStoppedOnly(phase) ==
    CASE phase = "prune_stop" -> orphan_containers
      [] phase = "prune_rm" -> stopped_containers
      [] phase = "prune_wt" -> stale_worktrees
      [] OTHER -> <<>>

\* the list a phase iterates over
PruneList(phase) ==
    CASE phase = "prune_stop" -> orphan_containers
      [] phase = "prune_rm" -> stopped_containers \o orphan_containers
      [] phase = "prune_wt" -> stale_worktrees
      [] OTHER -> <<>>

\* run_prune_mode up to the prompt: the runtime check, the three-way diff,
\* "Nothing to prune."
PruneBegin(cwd, all, yes, ps_ok1, ps_ok2, git_ok) ==
    /\ pc = "idle"
    /\ PathExists(cwd)
    /\ ncmd' = ncmd + 1
    /\ UNCHANGED fcall
    /\ processes' = <<>> /\ failed' = <<>>
    /\ streak' = NoStreak
    /\ UNCHANGED deleteLocals
    /\ cmd' = [name |-> "prune", cwd |-> cwd, all |-> all, yes |-> yes]
    /\ snap' = Snapshot
    /\ UNCHANGED world
    /\ nfail' = Failed(IF PruneIsGlobal(cmd') THEN <<ps_ok1>>
                       ELSE <<ps_ok1, ps_ok2, git_ok>>)
    /\ nfail' <= MaxFailures
    /\ PruneIsGlobal(cmd') => ps_ok2 /\ git_ok
    /\ LET git_root == find_git_root(cwd)
           global == PruneIsGlobal(cmd')
           stopped == IF global THEN StoppedRows(list_all_devcontainers(ps_ok1))
                      ELSE find_stopped_containers_for_project(git_root, ps_ok1)
           orphans == IF global THEN OrphanRows(list_all_devcontainers(ps_ok1))
                      ELSE OrphanRows(find_containers_for_project(git_root, None, ps_ok2))
           stale == IF global THEN <<>> ELSE find_stale_worktrees(git_root, git_ok)
           queries == IF global THEN <<Call("ps", "")>>
                      ELSE <<Call("ps", ""), Call("ps", ""), Call("worktree_list", "")>>
       IN IF get_container_runtime = None
          THEN /\ log' = <<>>
               /\ NoLocals
               /\ Finish(1)
          ELSE IF PruneNothing(stopped, orphans, stale)
          THEN /\ log' = Append(queries, Call("print", "Nothing to prune."))
               /\ NoLocals
               /\ Finish(0)
          ELSE /\ log' = queries
               /\ stopped_containers' = stopped
               /\ orphan_containers' = orphans
               /\ stale_worktrees' = stale
               /\ potential_images' = PotentialImages(stopped, orphans)
               /\ in_use_images' = {}
               /\ todo' = <<>>
               /\ pc' = "prune_prompt"
               /\ exit' = "none"

\* response = input("Remove these? [y/N] ")
PrunePrompt(answer) ==
    /\ UNCHANGED <<foreign, branches, cfg, deleteLocals, ncmd, fcall, spawnLocals, streak>>
    /\ pc = "prune_prompt"
    /\ UNCHANGED <<world, cmd, stopped_containers, orphan_containers,
                   stale_worktrees, potential_images, in_use_images, nfail, snap>>
    /\ IF Confirmed(answer)
       THEN /\ log' = Append(log, Call("input", answer))
            /\ pc' = PrunePhaseAfter(pc, PruneIsGlobal(cmd))
            /\ todo' = PruneList(pc')
            /\ UNCHANGED exit
       ELSE /\ log' = log \o <<Call("input", answer)>> \o
                      (IF answer = Interrupt THEN <<>> ELSE <<Call("print", "Cancelled.")>>)
            /\ todo' = <<>>
            /\ Finish(0)

\* for name, _, _ in orphan_containers: runtime stop name
PruneStop(ok) ==
    /\ UNCHANGED <<foreign, branches, cfg, deleteLocals, ncmd, fcall, spawnLocals, streak>>
    /\ pc = "prune_stop"
    /\ UNCHANGED <<runtime, images, dirExists, registered, cmd, stopped_containers,
                   orphan_containers, stale_worktrees, potential_images,
                   in_use_images, exit, snap>>
    /\ IF todo = <<>>
       THEN /\ pc' = PrunePhaseAfter(pc, PruneIsGlobal(cmd))
            /\ todo' = PruneList(pc')
            /\ UNCHANGED <<container, log, nfail>>
       ELSE LET name == Head(todo)[1] IN
            /\ Outcome(ok, CanStop(name))
            /\ log' = Append(log, Call("stop", name))
            /\ container' = IF ok
                            THEN [container EXCEPT ![FolderOfName(name)].state = "exited"]
                            ELSE container
            /\ todo' = Rest(ok, todo)
            /\ UNCHANGED pc

\* for name, _, _ in stopped_containers + orphan_containers: remove_container
PruneRm(ok) ==
    /\ UNCHANGED <<foreign, branches, cfg, deleteLocals, ncmd, fcall, spawnLocals, streak>>
    /\ pc = "prune_rm"
    /\ UNCHANGED <<runtime, images, dirExists, registered, cmd, stopped_containers,
                   orphan_containers, stale_worktrees, potential_images,
                   in_use_images, exit, snap>>
    /\ IF todo = <<>>
       THEN /\ pc' = PrunePhaseAfter(pc, PruneIsGlobal(cmd))
            /\ todo' = PruneList(pc')
            /\ UNCHANGED <<container, log, nfail>>
       ELSE LET name == Head(todo)[1] IN
            /\ Outcome(ok, CanRemove(name))
            /\ log' = Append(log, Call("rm", name))
            /\ container' = IF ok
                            THEN [container EXCEPT ![FolderOfName(name)] = Absent]
                            ELSE container
            /\ todo' = Rest(ok, todo)
            /\ UNCHANGED pc

\* for wt_path, _ in stale_worktrees: remove_worktree (git worktree remove
\* --force), which also deletes the directory if it is there
PruneWt(ok) ==
    /\ UNCHANGED <<foreign, branches, cfg, deleteLocals, ncmd, fcall, spawnLocals, streak>>
    /\ pc = "prune_wt"
    /\ UNCHANGED <<runtime, container, images, cmd, stopped_containers,
                   orphan_containers, stale_worktrees, potential_images,
                   in_use_images, exit, snap>>
    /\ IF todo = <<>>
       THEN /\ pc' = PrunePhaseAfter(pc, PruneIsGlobal(cmd))
            /\ UNCHANGED <<registered, dirExists, log, todo, nfail>>
       ELSE LET wt_path == Head(todo)[1] IN
            /\ Outcome(ok, wt_path \in registered)
            /\ log' = Append(log, Call("worktree_remove", PathStr(wt_path)))
            /\ registered' = IF ok THEN registered \ {wt_path} ELSE registered
            /\ dirExists' = IF ok THEN [dirExists EXCEPT ![wt_path] = FALSE]
                            ELSE dirExists
            /\ todo' = Rest(ok, todo)
            /\ UNCHANGED pc

\* if potential_images: re-query, in_use_images; the loop then iterates over
\* the set potential_images in whatever order the set yields
PruneRequery(ps_ok, order) ==
    /\ UNCHANGED <<foreign, branches, cfg, deleteLocals, ncmd, fcall, spawnLocals, streak>>
    /\ pc = "prune_images"
    /\ UNCHANGED <<world, cmd, stopped_containers, orphan_containers,
                   stale_worktrees, potential_images, snap>>
    /\ IF potential_images = {}
       THEN /\ UNCHANGED <<log, in_use_images, todo, nfail>>
            /\ Finish(0)
       ELSE /\ order \in Orders(potential_images)
            /\ Outcome(ps_ok, TRUE)
            /\ log' = Append(log, Call("ps", ""))
            /\ in_use_images' = InUseImages(list_all_devcontainers(ps_ok))
            /\ todo' = order
            /\ pc' = "prune_rmi"
            /\ UNCHANGED exit

\* variant: the in-use filter is dropped
PruneWantsAnyImage(image_id) == TRUE

\* if image_id not in in_use_images
PruneWantsImage(image_id) == image_id \notin in_use_images

\* for image_id in potential_images: remove_image unless still in use; its
\* failure is ignored
PruneRmi(ok) ==
    /\ UNCHANGED <<foreign, branches, cfg, deleteLocals, ncmd, fcall, spawnLocals, streak>>
    /\ pc = "prune_rmi"
    /\ UNCHANGED <<runtime, container, dirExists, registered, cmd,
                   stopped_containers, orphan_containers, stale_worktrees,
                   potential_images, in_use_images, snap>>
    /\ IF todo = <<>>
       THEN /\ UNCHANGED <<images, log, todo, nfail>>
            /\ Finish(0)
       ELSE LET image_id == Head(todo) IN
            /\ todo' = Tail(todo)
            /\ UNCHANGED <<pc, exit>>
            /\ IF PruneWantsImage(image_id)
               THEN /\ Outcome(ok, CanRemoveImage(image_id))
                    /\ log' = Append(log, Call("rmi", image_id))
                    /\ images' = IF ok THEN images \ {image_id} ELSE images
               ELSE UNCHANGED <<images, log, nfail>>

PruneStart(budget, cwds) ==
    \E cwd \in cwds, all, yes, ps_ok1, ps_ok2, git_ok \in BOOLEAN :
       /\ ncmd < budget
       /\ cwd = Outside => ~all
       /\ PruneBegin(cwd, all, yes, ps_ok1, ps_ok2, git_ok)

PruneStep ==
    \/ \E answer \in Answers \cup {Interrupt} : PrunePrompt(answer)
    \/ \E ok \in BOOLEAN : PruneStop(ok)
    \/ \E ok \in BOOLEAN : PruneRm(ok)
    \/ \E ok \in BOOLEAN : PruneWt(ok)
    \/ \E ps_ok \in BOOLEAN, order \in Orders(potential_images) : PruneRequery(ps_ok, order)
    \/ \E ok \in BOOLEAN : PruneRmi(ok)

----------------------------------------------------------------------------
----------------------------------------------------------------------------
(* Ports, configurations and devcontainer up.                               *)

\* cli.py is_port_available: can the host bind the port
is_port_available(port) ==
    /\ port \notin foreign
    /\ \A f \in Folders : ~(container[f].state = "running" /\ container[f].pub = port)

\* cli.py read_port_from_devcontainer
read_port_from_devcontainer(workspace_dir) ==
    IF cfg[workspace_dir].exists THEN cfg[workspace_dir].port ELSE NoPort

\* container.py is_container_running: a failed query prints no name
is_container_running(workspace_dir, ps_ok) ==
    /\ get_container_runtime # None
    /\ ps_ok
    /\ container[workspace_dir].state = "running"

\* setup.py scaffold_devcontainer: nothing if .devcontainer exists; port is
\* the random port build_devcontainer_json draws
scaffold_devcontainer(old, project_name, port) ==
    IF old.exists THEN old ELSE build_devcontainer_json(project_name, port)

\* setup.py sync_devcontainer: regenerate; the given port, else the port the
\* file holds, else the random port rnd
sync_devcontainer(old, project_name, port, rnd) ==
    LET kept == IF port # NoPort THEN port
                ELSE IF old.exists THEN old.port ELSE NoPort
    IN build_devcontainer_json(project_name, IF kept # NoPort THEN kept ELSE rnd)

\* container.py reassign_port: PORT becomes new_port; the -p argument is
\* rewritten if the old port's digits occur in it (ports have four digits, so
\* if it publishes the old port)
reassign_port(old, new_port) ==
    [old EXCEPT !.port = new_port,
                !.pub = IF old.pub = old.port THEN new_port ELSE old.pub]

\* the runtime: a port can be published unless a foreign process or another
\* running container holds it
PortFree(p, f) ==
    /\ p \notin foreign
    /\ \A g \in Folders \ {f} : ~(container[g].state = "running" /\ container[g].pub = p)

\* the runtime: no two containers share a name
NameFree(n, f) ==
    \A g \in Folders \ {f} : container[g].state = "absent" \/ container[g].name # n

\* the container devcontainer up finds by the folder's label, after
\* --remove-existing-container has removed it
Existing(f, remove_existing) == IF remove_existing THEN Absent ELSE container[f]

\* devcontainer up can succeed
CanStart(f, remove_existing) ==
    /\ runtime # None
    /\ dirExists[f]
    /\ cfg[f].exists
    /\ LET c == Existing(f, remove_existing) IN
       CASE c.state = "running" -> TRUE
         [] c.state = "exited" -> PortFree(c.pub, f)
         [] OTHER -> NameFree(cfg[f].name, f) /\ PortFree(cfg[f].pub, f)

\* the folder's row after devcontainer up: a running container is reused, a
\* stopped one started, a missing one created from the configuration; a
\* creation that cannot publish its port leaves the container created
Started(f, remove_existing, ok, image) ==
    LET c == Existing(f, remove_existing)
        fresh == [state |-> "running", image |-> image,
                  name |-> cfg[f].name, pub |-> cfg[f].pub]
    IN IF ok
       THEN CASE c.state = "running" -> c
              [] c.state = "exited" -> [c EXCEPT !.state = "running"]
              [] OTHER -> fresh
       ELSE IF CanStart(f, remove_existing) \/ runtime = None
                 \/ ~dirExists[f] \/ ~cfg[f].exists
       THEN container[f]
       ELSE IF c.state = "absent" /\ NameFree(cfg[f].name, f)
       THEN [fresh EXCEPT !.state = "exited"]
       ELSE c

\* the image devcontainer up builds from a checkout: one per project
ImageFor(f) == IF f = Other THEN "img2" ELSE "img1"

\* the command's status once devcontainer_up has returned: run_up_mode and
\* run_tree_mode sys.exit on False
DevcontainerReturnsZero(result) == Finish(0)

DevcontainerReturn(result) == Finish(IF result THEN 0 ELSE 1)

\* container.py devcontainer_up: the port check
DevcontainerCheck(ps_ok) ==
    /\ pc = "dc_check"
    /\ UNCHANGED <<world, ncmd, fcall, spawnLocals, streak, cmd, pruneLocals, deleteLocals, todo, snap>>
    /\ LET port == read_port_from_devcontainer(ws)
           occupied == port # NoPort /\ ~is_port_available(port)
           probe == IF port # NoPort THEN <<Call("bind", ToString(port))>> ELSE <<>>
       IN /\ Query(occupied /\ cmd.new /\ get_container_runtime # None, ps_ok)
          /\ IF occupied /\ ~(cmd.new /\ is_container_running(ws, ps_ok))
             THEN IF cmd.tty
                  THEN pc' = "dc_prompt" /\ log' = log \o probe /\ UNCHANGED exit
                  ELSE /\ log' = log \o probe \o
                                 <<Call("print", "Error: Port is already in use.")>>
                       /\ DevcontainerReturn(FALSE)
             ELSE pc' = "dc_start" /\ log' = log \o probe /\ UNCHANGED exit

\* container.py devcontainer_up: "Port is in use. Assign a new random port?"
\* reassign_port draws until it draws an available port
DevcontainerPrompt(answer, new_port) ==
    /\ pc = "dc_prompt"
    /\ UNCHANGED <<runtime, foreign, container, images, dirExists, registered,
                   branches, ncmd, fcall, spawnLocals, streak, cmd, pruneLocals, deleteLocals, todo, nfail, snap>>
    /\ IF answer = Interrupt
       THEN /\ log' = Append(log, Call("input", answer))
            /\ UNCHANGED cfg
            /\ DevcontainerReturn(FALSE)
       ELSE IF Lower(Strip(answer)) \notin {"", "y", "yes"}
       THEN /\ log' = log \o <<Call("input", answer),
                               Call("print", "Error: Port is already in use.")>>
            /\ UNCHANGED cfg
            /\ DevcontainerReturn(FALSE)
       ELSE IF \A p \in RandomPorts : ~is_port_available(p)
       THEN /\ log' = Append(log, Call("input", answer))
            /\ UNCHANGED <<cfg, exit>>
            /\ pc' = "reassign_port"
       ELSE /\ is_port_available(new_port)
            /\ log' = log \o <<Call("input", answer), Call("bind", ToString(new_port))>>
            /\ cfg' = [cfg EXCEPT ![ws] = reassign_port(cfg[ws], new_port)]
            /\ pc' = "dc_start"
            /\ UNCHANGED exit

\* container.py devcontainer_up: mkdir .devcontainer/.zsh-state (which raises
\* if .devcontainer is missing), then devcontainer up
DevcontainerStart(ok) ==
    /\ pc = "dc_start"
    /\ UNCHANGED <<runtime, foreign, dirExists, registered, branches, cfg, ncmd, fcall, spawnLocals,
                   cmd, pruneLocals, deleteLocals, todo, snap>>
    /\ IF ~cfg[ws].exists
       THEN /\ log' = Append(log, Call("raise", "FileNotFoundError"))
            /\ UNCHANGED <<container, images, nfail, streak>>
            /\ Finish(1)
       ELSE /\ Outcome(ok, CanStart(ws, cmd.new))
            /\ log' = Append(log, Call("up", PathStr(ws)))
            /\ container' = [container EXCEPT
                               ![ws] = Started(ws, cmd.new, ok, ImageFor(ws))]
            /\ images' = images \cup ({container'[ws].image} \ {""})
            /\ streak' = IF ws # streak.ws THEN streak
                         ELSE [streak EXCEPT
                                 !.starts = @ + 1,
                                 !.effective = IF container'[ws].state = "running"
                                                  /\ container[ws].state # "running"
                                               THEN @ + 1 ELSE @,
                                 !.created = IF container'[ws].state # "absent"
                                                /\ Existing(ws, cmd.new).state = "absent"
                                             THEN @ + 1 ELSE @]
            /\ DevcontainerReturn(ok)

Devcontainer ==
    \/ \E ps_ok \in BOOLEAN : DevcontainerCheck(ps_ok)
    \/ \E answer \in Answers \cup {Interrupt}, new_port \in RandomPorts :
          DevcontainerPrompt(answer, new_port)
    \/ \E ok \in BOOLEAN : DevcontainerStart(ok)

----------------------------------------------------------------------------
(* up and tree: commands.py run_up_mode and run_tree_mode.  main's          *)
(* check_tmux_guard stands before both; the commands modelled are those it  *)
(* lets through, with --mount and --copy arguments that parse.              *)

NeedsStartAlways(new, already_running) == TRUE

\* run_up_mode: if args.new or not already_running
NeedsStart(new, already_running) == new \/ ~already_running

\* run_up_mode up to the start decision
UpBegin(cwd, new, sync, tty, port, ps_ok) ==
    /\ pc = "idle"
    /\ PathExists(cwd)
    /\ ncmd' = ncmd + 1
    /\ UNCHANGED fcall
    /\ processes' = <<>> /\ failed' = <<>>
    /\ streak' = IF new \/ find_git_root(cwd) = None THEN NoStreak
                 ELSE IF find_git_root(cwd) = streak.ws THEN streak
                 ELSE [NoStreak EXCEPT
                         !.ws = find_git_root(cwd),
                         !.had = container[find_git_root(cwd)].state # "absent"]
    /\ cmd' = [name |-> "up", new |-> new, sync |-> sync, tty |-> tty]
    /\ snap' = Snapshot
    /\ UNCHANGED <<runtime, foreign, container, images, dirExists, registered,
                   branches, pruneLocals, selected, wt_list, containers, todo>>
    /\ LET git_root == find_git_root(cwd) IN
       IF git_root = None
       THEN /\ log' = <<>>
            /\ UNCHANGED <<cfg, ws, nfail>>
            /\ Finish(1)
       ELSE LET project_name == Name(git_root)
                conf == IF sync
                        THEN sync_devcontainer(cfg[git_root], project_name, NoPort, port)
                        ELSE scaffold_devcontainer(cfg[git_root], project_name, port)
                already_running == is_container_running(git_root, ps_ok)
            IN /\ cfg' = [cfg EXCEPT ![git_root] = conf]
               /\ Query(get_container_runtime # None, ps_ok)
               /\ ws' = git_root
               /\ IF NeedsStart(new, already_running)
                  THEN /\ log' = <<Call("is_running", Bool(already_running))>>
                       /\ pc' = "dc_check"
                       /\ exit' = "none"
                  ELSE /\ log' = <<Call("is_running", Bool(already_running)),
                                   Call("print", "Container already running, reattaching.")>>
                       /\ Finish(0)

Up(budget) ==
    \E cwd \in {Main, Other, Outside}, new, sync, tty, ps_ok \in BOOLEAN,
       port \in RandomPorts :
          /\ ncmd < budget
          /\ UpBegin(cwd, new, sync, tty, port, ps_ok)

\* the configuration a new worktree gets: the main checkout's .devcontainer
\* copied, else a scaffold named by get_container_name
WorktreeCfg(git_root, worktree_name, port) ==
    IF cfg[git_root].exists THEN cfg[git_root]
    ELSE scaffold_devcontainer(NoCfg, get_container_name(git_root, worktree_name), port)

\* git worktree add -b name path
CanAddWorktree(worktree_name, worktree_path) ==
    worktree_path \notin registered /\ worktree_name \notin branches

\* variant: the git mount is added to an existing worktree's file as well
get_or_create_worktree_mounting(git_root, worktree_name, worktree_path, port) ==
    add_worktree_git_mount(IF PathExists(worktree_path) THEN cfg[worktree_path]
                           ELSE WorktreeCfg(git_root, worktree_name, port),
                           Append(git_root, ".git"))

\* worktree.py get_or_create_worktree, once git worktree add has succeeded:
\* the devcontainer.json the worktree holds when it returns
get_or_create_worktree(git_root, worktree_name, worktree_path, port) ==
    IF PathExists(worktree_path) THEN cfg[worktree_path]
    ELSE add_worktree_git_mount(WorktreeCfg(git_root, worktree_name, port),
                                Append(git_root, ".git"))

\* run_tree_mode up to the start decision
TreeBegin(cwd, worktree_name, new, sync, tty, port, add_ok, ps_ok) ==
    /\ pc = "idle"
    /\ PathExists(cwd)
    /\ ncmd' = ncmd + 1
    /\ UNCHANGED fcall
    /\ processes' = <<>> /\ failed' = <<>>
    /\ streak' = NoStreak
    /\ cmd' = [name |-> "tree", new |-> new, sync |-> sync, tty |-> tty]
    /\ snap' = Snapshot
    /\ UNCHANGED <<runtime, foreign, container, images, pruneLocals, selected,
                   wt_list, containers, todo>>
    /\ LET git_root == find_git_root(cwd)
           worktree_path == get_worktree_path(git_root, worktree_name)
       IN
       IF git_root = None
       THEN /\ log' = <<>>
            /\ UNCHANGED <<cfg, dirExists, registered, branches, ws, nfail>>
            /\ Finish(1)
       ELSE IF ~PathExists(worktree_path) /\ ~add_ok
       THEN \* sys.exit("Error: Failed to create git worktree")
            /\ Outcome(add_ok, CanAddWorktree(worktree_name, worktree_path))
            /\ log' = <<Call("worktree_add", PathStr(worktree_path))>>
            /\ UNCHANGED <<cfg, dirExists, registered, branches, ws>>
            /\ Finish(1)
       ELSE LET created == ~PathExists(worktree_path)
                made == get_or_create_worktree(git_root, worktree_name, worktree_path, port)
                conf == IF sync THEN sync_devcontainer(made, worktree_name, NoPort, port)
                        ELSE made
            IN /\ created => CanAddWorktree(worktree_name, worktree_path)
               /\ Query(get_container_runtime # None, ps_ok)
               /\ dirExists' = [dirExists EXCEPT ![worktree_path] = TRUE]
               /\ registered' = IF created THEN registered \cup {worktree_path}
                                ELSE registered
               /\ branches' = IF created THEN branches \cup {worktree_name} ELSE branches
               /\ cfg' = [cfg EXCEPT ![worktree_path] = conf]
               /\ ws' = worktree_path
               /\ log' = (IF created THEN <<Call("worktree_add", PathStr(worktree_path))>>
                          ELSE <<>>) \o
                         <<Call("is_running", Bool(is_container_running(worktree_path, ps_ok)))>>
               /\ IF new \/ ~is_container_running(worktree_path, ps_ok)
                  THEN pc' = "dc_check" /\ exit' = "none"
                  ELSE Finish(0)

Tree(budget) ==
    \E cwd \in {Main, Outside}, worktree_name \in WtNames,
       new, sync, tty, add_ok, ps_ok \in BOOLEAN, port \in RandomPorts :
          /\ ncmd < budget
          /\ TreeBegin(cwd, worktree_name, new, sync, tty, port, add_ok, ps_ok)

----------------------------------------------------------------------------
(* spawn: commands.py run_spawn_mode, with --prefix x and no --prompt.      *)

prefix == "x"

\* name = f"{idx}-{args.prefix}"
SpawnNames(n) == [i \in 1..n |-> ToString(i) \o "-" \o prefix]

\* the counts whose worktrees the model's folders hold
SpawnCounts == {0, 1, 2}

\* run_spawn_mode: validate_tree_mode, the count, the names
SpawnBegin(cwd, n, new, sync) ==
    /\ pc = "idle"
    /\ PathExists(cwd)
    /\ ncmd' = ncmd + 1
    /\ UNCHANGED fcall
    /\ processes' = <<>> /\ failed' = <<>>
    /\ streak' = NoStreak
    /\ cmd' = [name |-> "spawn", cwd |-> cwd, new |-> new, sync |-> sync,
               count |-> n]
    /\ snap' = Snapshot
    /\ log' = <<>>
    /\ UNCHANGED <<world, pruneLocals, deleteLocals, nfail>>
    /\ IF find_git_root(cwd) = None \/ n < 1
       THEN todo' = <<>> /\ Finish(1)
       ELSE /\ todo' = SpawnNames(n)
            /\ pc' = "spawn_create"
            /\ exit' = "none"

\* the worktree_paths list once the creating loop has filled it
worktree_paths ==
    MapSeq(SpawnNames(cmd.count), LAMBDA n : get_worktree_path(find_git_root(cmd.cwd), n))

\* for i, name in enumerate(worktree_names): get_or_create_worktree, sync or
\* the PORT rewrite, mkdir .zsh-state
SpawnCreate(port, add_ok) ==
    /\ pc = "spawn_create"
    /\ UNCHANGED <<runtime, foreign, container, images, ncmd, fcall, spawnLocals, streak,
                   cmd, pruneLocals, deleteLocals, snap>>
    /\ IF todo = <<>>
       THEN /\ pc' = "spawn_launch"
            /\ todo' = worktree_paths
            /\ UNCHANGED <<cfg, dirExists, registered, branches, log, exit, nfail>>
       ELSE LET git_root == find_git_root(cmd.cwd)
                name == Head(todo)
                i == cmd.count - Len(todo)
                worktree_path == get_worktree_path(git_root, name)
                created == ~PathExists(worktree_path)
                made == get_or_create_worktree(git_root, name, worktree_path, port)
                conf == IF cmd.sync
                        THEN sync_devcontainer(made, name, base_port + i, port)
                        ELSE IF made.exists THEN [made EXCEPT !.port = base_port + i]
                        ELSE made
            IN
            /\ Outcome(add_ok, created => CanAddWorktree(name, worktree_path))
            /\ log' = IF created
                      THEN Append(log, Call("worktree_add", PathStr(worktree_path)))
                      ELSE log
            /\ IF ~add_ok
               THEN /\ UNCHANGED <<cfg, dirExists, registered, branches, todo>>
                    /\ Finish(1)
               ELSE /\ dirExists' = [dirExists EXCEPT ![worktree_path] = TRUE]
                    /\ registered' = IF created THEN registered \cup {worktree_path}
                                     ELSE registered
                    /\ branches' = IF created THEN branches \cup {name} ELSE branches
                    /\ cfg' = [cfg EXCEPT ![worktree_path] = conf]
                    /\ IF conf.exists
                       THEN todo' = Tail(todo) /\ UNCHANGED <<pc, exit>>
                       ELSE todo' = todo /\ Finish(1)

\* for i, path in enumerate(worktree_paths): Popen(devcontainer up ...),
\* one process per step; none is waited for here
SpawnLaunch ==
    /\ pc = "spawn_launch"
    /\ UNCHANGED <<world, ncmd, fcall, failed, streak, cmd, pruneLocals, deleteLocals, exit,
                   nfail, snap>>
    /\ IF todo # <<>>
       THEN /\ log' = Append(log, Call("up", PathStr(Head(todo))))
            /\ processes' = Append(processes, [path |-> Head(todo), ended |-> FALSE,
                                                returncode |-> 0])
            /\ todo' = Tail(todo)
            /\ UNCHANGED pc
       ELSE /\ todo' = MapSeq(processes, LAMBDA proc : proc.path)
            /\ pc' = "spawn_wait"
            /\ UNCHANGED <<log, processes>>

\* a launched process runs beside the command and ends whenever it ends,
\* whatever the others do: the start it attempted and its returncode
SpawnExit(i, ok) ==
    /\ pc \in {"spawn_launch", "spawn_wait"}
    /\ i \in DOMAIN processes
    /\ ~processes[i].ended
    /\ UNCHANGED <<runtime, foreign, dirExists, registered, branches, cfg, ncmd, fcall, failed,
                   streak, cmd, pruneLocals, deleteLocals, todo, log, pc, exit, snap>>
    /\ LET path == processes[i].path
       IN /\ Outcome(ok, CanStart(path, cmd.new))
          /\ container' = [container EXCEPT
                             ![path] = Started(path, cmd.new, ok, ImageFor(path))]
          /\ images' = images \cup ({container'[path].image} \ {""})
          /\ processes' = [processes EXCEPT
                             ![i] = [@ EXCEPT !.ended = TRUE,
                                              !.returncode = IF ok THEN 0 ELSE 1]]

\* a wait loop that gives up at the first process that exited non-zero
SpawnWaitAborts ==
    /\ pc = "spawn_wait"
    /\ UNCHANGED <<world, ncmd, fcall, processes, streak, cmd, pruneLocals, deleteLocals,
                   nfail, snap>>
    /\ IF todo = <<>>
       THEN /\ UNCHANGED <<todo, log, failed>>
            /\ Finish(0)
       ELSE LET proc == processes[Len(processes) - Len(todo) + 1]
            IN /\ proc.ended
               /\ log' = log \o <<Call("communicate", PathStr(proc.path)),
                                   Call("print", (IF proc.returncode # 0 THEN "Failed: "
                                                  ELSE "Ready: ") \o Name(proc.path))>>
               /\ failed' = IF proc.returncode # 0 THEN Append(failed, Name(proc.path))
                             ELSE failed
               /\ todo' = Tail(todo)
               /\ IF proc.returncode # 0 THEN Finish(1) ELSE UNCHANGED <<pc, exit>>

\* for path, proc in processes: proc.communicate() returns once that process
\* has ended; Failed or Ready is printed for it and the loop goes on
SpawnWait ==
    /\ pc = "spawn_wait"
    /\ UNCHANGED <<world, ncmd, fcall, processes, streak, cmd, pruneLocals, deleteLocals,
                   nfail, snap>>
    /\ IF todo = <<>>
       THEN /\ UNCHANGED <<todo, log, failed>>
            /\ Finish(0)
       ELSE LET proc == processes[Len(processes) - Len(todo) + 1]
            IN /\ proc.ended
               /\ log' = log \o <<Call("communicate", PathStr(proc.path)),
                                   Call("print", (IF proc.returncode # 0 THEN "Failed: "
                                                  ELSE "Ready: ") \o Name(proc.path))>>
               /\ failed' = IF proc.returncode # 0 THEN Append(failed, Name(proc.path))
                             ELSE failed
               /\ todo' = Tail(todo)
               /\ UNCHANGED <<pc, exit>>

SpawnStart(budget) ==
    \E cwd \in {Main, Outside}, n \in SpawnCounts, new, sync \in BOOLEAN :
       /\ ncmd < budget
       /\ SpawnBegin(cwd, n, new, sync)

SpawnStep ==
    \/ \E port \in RandomPorts, add_ok \in BOOLEAN : SpawnCreate(port, add_ok)
    \/ SpawnLaunch
    \/ \E i \in 1..2, ok \in BOOLEAN : SpawnExit(i, ok)
    \/ SpawnWait

----------------------------------------------------------------------------
(* delete: commands.py run_delete_mode, _delete_worktree, _delete_project.  *)

Gone == <<"gone">>

\* the paths a delete can name
KnownPaths == {Main, Other, Outside, Gone}

\* the target arguments the model draws; None is no argument (the picker)
DeleteTargets ==
    {None} \cup {PathStr(q) : q \in KnownPaths} \cup WtNames \cup {"nope"}

\* target_arg.startswith("/") or target_arg.startswith(".")
IsPathArg(target_arg) == \E q \in KnownPaths : PathStr(q) = target_arg

\* Path(target_arg).resolve()
PathOf(target_arg) == CHOOSE q \in KnownPaths : PathStr(q) = target_arg

\* commands.py _find_deletable_worktrees
find_deletable_worktrees(git_root, git_ok) ==
    SelectSeq(list_worktrees(git_root, git_ok), LAMBDA w : w[1] # git_root)

RECURSIVE Concat(_)
Concat(ss) == IF ss = <<>> THEN <<>> ELSE Head(ss) \o Concat(Tail(ss))

\* commands.py _build_delete_picker_items: for each container whose folder
\* exists, the folder's git root as a project and that root's other
\* worktrees (a folder of the model is its own git root, so no root repeats)
build_delete_picker_items(ps_ok, git_ok) ==
    LET rows == SelectSeq(list_all_devcontainers(ps_ok),
                          LAMBDA c : PathExists(c[2]) /\ find_git_root(c[2]) # None)
        ItemsOf(c) ==
            LET root == find_git_root(c[2]) IN
            <<[type |-> "project", path |-> root, git_root |-> root]>> \o
            MapSeq(find_deletable_worktrees(root, git_ok),
                   LAMBDA w : [type |-> "worktree", path |-> w[1], git_root |-> root])
    IN Concat(MapSeq(rows, ItemsOf))

\* where run_delete_mode goes once the target is confirmed
DeleteProceed(sel) ==
    IF sel.type = "worktree"
    THEN pc' = "delete_worktree" /\ todo' = <<sel.path>>
    ELSE pc' = "delete_project" /\ todo' = <<>>

\* run_delete_mode up to its first prompt
DeleteBegin(cwd, target_arg, purge, yes, ps_ok, git_ok) ==
    /\ pc = "idle"
    /\ PathExists(cwd)
    /\ ncmd' = ncmd + 1
    /\ UNCHANGED fcall
    /\ processes' = <<>> /\ failed' = <<>>
    /\ streak' = NoStreak
    /\ cmd' = [name |-> "delete", cwd |-> cwd, target |-> target_arg, purge |-> purge,
               yes |-> yes]
    /\ snap' = Snapshot
    /\ UNCHANGED <<world, pruneLocals, ws, wt_list, containers>>
    /\ LET git_root == find_git_root(cwd) IN
       IF target_arg # None /\ IsPathArg(target_arg)
       THEN LET target_path == PathOf(target_arg)
                project_root == IF target_path \in Folders
                                THEN find_git_root(target_path) ELSE None
            IN /\ ps_ok /\ git_ok
               /\ log' = <<>>
               /\ UNCHANGED nfail
               /\ IF ~PathExists(target_path) \/ project_root = None
                  THEN /\ selected' = None
                       /\ todo' = <<>>
                       /\ Finish(1)
                  ELSE /\ selected' = [type |-> "project", path |-> project_root,
                                       git_root |-> project_root]
                       /\ exit' = "none"
                       /\ IF yes THEN DeleteProceed(selected')
                          ELSE pc' = "delete_confirm" /\ todo' = <<>>
       ELSE IF target_arg # None
       THEN IF git_root = None
            THEN /\ ps_ok /\ git_ok
                 /\ log' = <<>>
                 /\ UNCHANGED nfail
                 /\ selected' = None
                 /\ todo' = <<>>
                 /\ Finish(1)
            ELSE LET list == find_deletable_worktrees(git_root, git_ok)
                     hits == SelectSeq(list, LAMBDA w : Name(w[1]) = target_arg)
                 IN /\ ps_ok
                    /\ Query(TRUE, git_ok)
                    /\ log' = <<Call("worktree_list", "")>>
                    /\ IF hits = <<>>
                       THEN /\ selected' = None
                            /\ todo' = <<>>
                            /\ Finish(1)
                       ELSE /\ selected' = [type |-> "worktree", path |-> hits[1][1],
                                            git_root |-> git_root]
                            /\ exit' = "none"
                            /\ IF yes THEN DeleteProceed(selected')
                               ELSE pc' = "delete_confirm" /\ todo' = <<>>
       ELSE LET rows == SelectSeq(list_all_devcontainers(ps_ok),
                                  LAMBDA c : PathExists(c[2]))
                items == build_delete_picker_items(ps_ok, git_ok)
            IN /\ get_container_runtime = None => ps_ok
               /\ rows = <<>> => git_ok
               /\ Charge(Vol(ps_ok, TRUE) + Vol(git_ok, TRUE))
               /\ log' = <<Call("ps", "")>>
               /\ selected' = None
               /\ IF items = <<>>
                  THEN todo' = <<>> /\ Finish(1)
                  ELSE /\ todo' = items
                       /\ pc' = "delete_pick"
                       /\ exit' = "none"

\* the picker, fzf or the numbered menu: an item, a cancellation (fzf's
\* nonzero status, an interrupt: -1) or an invalid selection (0)
DeletePick(choice) ==
    /\ pc = "delete_pick"
    /\ choice \in -1..Len(todo)
    /\ UNCHANGED <<world, ncmd, fcall, spawnLocals, streak, cmd, pruneLocals, ws, wt_list, containers, nfail, snap>>
    /\ log' = Append(log, Call("pick", ToString(choice)))
    /\ IF choice < 1
       THEN /\ UNCHANGED selected
            /\ todo' = <<>>
            /\ Finish(IF choice = 0 THEN 1 ELSE 0)
       ELSE /\ selected' = todo[choice]
            /\ UNCHANGED exit
            /\ IF cmd.yes THEN DeleteProceed(selected')
               ELSE pc' = "delete_confirm" /\ todo' = <<>>

\* "Delete project ...? [y/N]", "Delete worktree ...? [y/N]"
DeleteConfirm(answer) ==
    /\ pc = "delete_confirm"
    /\ UNCHANGED <<world, ncmd, fcall, spawnLocals, streak, cmd, pruneLocals, deleteLocals, nfail, snap>>
    /\ IF Confirmed(answer)
       THEN /\ log' = Append(log, Call("input", answer))
            /\ DeleteProceed(selected)
            /\ UNCHANGED exit
       ELSE /\ log' = log \o <<Call("input", answer)>> \o
                      (IF answer = Interrupt THEN <<>> ELSE <<Call("print", "Cancelled.")>>)
            /\ todo' = <<>>
            /\ Finish(0)

\* _delete_project: the runtime check and the worktree list
DeleteProject(git_ok) ==
    /\ pc = "delete_project"
    /\ UNCHANGED <<world, ncmd, fcall, spawnLocals, streak, cmd, pruneLocals, ws, selected, containers, snap>>
    /\ IF get_container_runtime = None
       THEN /\ git_ok
            /\ UNCHANGED <<wt_list, todo, log, nfail>>
            /\ Finish(1)
       ELSE /\ Query(TRUE, git_ok)
            /\ log' = Append(log, Call("worktree_list", ""))
            /\ wt_list' = find_deletable_worktrees(selected.git_root, git_ok)
            /\ UNCHANGED exit
            /\ IF wt_list' # <<>> /\ ~cmd.yes
               THEN pc' = "delete_cascade" /\ todo' = <<>>
               ELSE /\ pc' = "delete_worktree"
                    /\ todo' = MapSeq(wt_list', LAMBDA w : w[1])

\* "Project has worktrees: ... Also delete them? [y/N]"
DeleteCascade(answer) ==
    /\ pc = "delete_cascade"
    /\ UNCHANGED <<world, ncmd, fcall, spawnLocals, streak, cmd, pruneLocals, deleteLocals, nfail, snap>>
    /\ IF Confirmed(answer)
       THEN /\ log' = Append(log, Call("input", answer))
            /\ pc' = "delete_worktree"
            /\ todo' = MapSeq(wt_list, LAMBDA w : w[1])
            /\ UNCHANGED exit
       ELSE /\ log' = log \o <<Call("input", answer)>> \o
                      (IF answer = Interrupt THEN <<>> ELSE <<Call("print", "Cancelled.")>>)
            /\ todo' = <<>>
            /\ Finish(0)

\* git worktree remove --force: the path must be a linked worktree of a
\* repository that is still there
CanRemoveWorktree(git_root, wt_path) ==
    wt_path \in registered /\ PathExists(git_root) /\ dirExists[Main]

\* _delete_worktree: stop_container (which looks the container up and stops
\* it if there is one), then remove_worktree
DeleteWorktree(ps_ok, stop_ok, rm_ok) ==
    /\ pc = "delete_worktree"
    /\ UNCHANGED <<runtime, foreign, images, branches, ncmd, fcall, spawnLocals, streak, cmd, pruneLocals,
                   deleteLocals, snap>>
    /\ IF todo = <<>>
       THEN /\ ps_ok /\ stop_ok /\ rm_ok
            /\ UNCHANGED <<container, dirExists, registered, cfg, todo, log, nfail>>
            /\ IF selected.type = "worktree" THEN Finish(0)
               ELSE pc' = "delete_containers" /\ UNCHANGED exit
       ELSE LET wt_path == Head(todo)
                asks == get_container_runtime # None
                found == asks /\ ps_ok /\ wt_path \in Folders
                         /\ container[wt_path].state # "absent"
                can == CanRemoveWorktree(selected.git_root, wt_path)
            IN /\ ~asks => ps_ok
               /\ ~found => stop_ok
               /\ rm_ok => can
               /\ Charge(Vol(ps_ok, asks) + Vol(stop_ok, found) + Vol(rm_ok, can))
               /\ log' = log \o
                     (IF found THEN <<Call("stop", container[wt_path].name)>> ELSE <<>>)
                     \o <<Call("worktree_remove", PathStr(wt_path))>>
               /\ container' = IF found /\ stop_ok
                               THEN [container EXCEPT ![wt_path].state = "exited"]
                               ELSE container
               /\ registered' = IF rm_ok THEN registered \ {wt_path} ELSE registered
               /\ dirExists' = IF rm_ok THEN [dirExists EXCEPT ![wt_path] = FALSE]
                               ELSE dirExists
               /\ cfg' = IF rm_ok THEN [cfg EXCEPT ![wt_path] = NoCfg] ELSE cfg
               /\ todo' = Tail(todo)
               /\ UNCHANGED <<pc, exit>>

\* _delete_project: containers = find_containers_for_project(git_root)
DeleteContainers(ps_ok) ==
    /\ pc = "delete_containers"
    /\ UNCHANGED <<world, ncmd, fcall, spawnLocals, streak, cmd, pruneLocals, ws, selected, wt_list, exit, snap>>
    /\ Query(TRUE, ps_ok)
    /\ log' = Append(log, Call("ps", ""))
    /\ containers' = find_containers_for_project(selected.git_root, None, ps_ok)
    /\ todo' = SelectSeq(containers', LAMBDA c : c[3] = "running")
    /\ pc' = "delete_stop"

\* for name, _, state, _ in containers: if state == "running": runtime stop
DeleteStop(ok) ==
    /\ pc = "delete_stop"
    /\ UNCHANGED <<runtime, foreign, images, dirExists, registered, branches, cfg,
                   ncmd, fcall, spawnLocals, streak, cmd, pruneLocals, deleteLocals, exit, snap>>
    /\ IF todo = <<>>
       THEN /\ pc' = "delete_rm"
            /\ todo' = containers
            /\ UNCHANGED <<container, log, nfail>>
       ELSE LET name == Head(todo)[1] IN
            /\ Outcome(ok, CanStop(name))
            /\ log' = Append(log, Call("stop", name))
            /\ container' = IF ok
                            THEN [container EXCEPT ![FolderOfName(name)].state = "exited"]
                            ELSE container
            /\ todo' = Rest(ok, todo)
            /\ UNCHANGED pc

\* for name, ... in containers: remove_container(name)
DeleteRm(ok) ==
    /\ pc = "delete_rm"
    /\ UNCHANGED <<runtime, foreign, images, dirExists, registered, branches, cfg,
                   ncmd, fcall, spawnLocals, streak, cmd, pruneLocals, deleteLocals, snap>>
    /\ IF todo = <<>>
       THEN /\ UNCHANGED <<container, log, todo, nfail>>
            /\ IF cmd.purge THEN pc' = "delete_purge" /\ UNCHANGED exit
               ELSE Finish(0)
       ELSE LET name == Head(todo)[1] IN
            /\ Outcome(ok, CanRemove(name))
            /\ log' = Append(log, Call("rm", name))
            /\ container' = IF ok
                            THEN [container EXCEPT ![FolderOfName(name)] = Absent]
                            ELSE container
            /\ todo' = Rest(ok, todo)
            /\ UNCHANGED <<pc, exit>>

\* the folders under worktrees_dir = git_root.parent / "<name>-worktrees"
WorktreesUnder(git_root) ==
    {f \in Folders :
        Parent(f) = Append(Parent(git_root), Name(git_root) \o "-worktrees")}

\* if purge: shutil.rmtree(git_root), and the worktrees directory if it
\* exists (it is taken to exist while it holds a worktree)
DeletePurge(ok1, ok2) ==
    /\ pc = "delete_purge"
    /\ UNCHANGED <<runtime, foreign, container, images, ncmd, fcall, spawnLocals, streak, cmd, pruneLocals,
                   deleteLocals, todo, snap>>
    /\ LET git_root == selected.git_root
           under == {f \in WorktreesUnder(git_root) : dirExists[f]}
           gone == (IF ok1 THEN {git_root} ELSE {}) \cup (IF ok2 THEN under ELSE {})
       IN /\ under = {} => ok2
          /\ Charge(Vol(ok1, TRUE) + Vol(ok2, under # {}))
          /\ log' = log \o <<Call("rmtree", PathStr(git_root))>> \o
                (IF under # {}
                 THEN <<Call("rmtree", PathStr(Parent(CHOOSE f \in under : TRUE)))>>
                 ELSE <<>>)
          /\ dirExists' = [f \in Folders |-> dirExists[f] /\ f \notin gone]
          /\ cfg' = [f \in Folders |-> IF f \in gone THEN NoCfg ELSE cfg[f]]
          /\ registered' = IF Main \in gone THEN {} ELSE registered
          /\ branches' = IF Main \in gone THEN {} ELSE branches
    /\ Finish(0)

DeleteStart(budget) ==
    \E cwd \in {Main, Outside}, target_arg \in DeleteTargets,
       purge, yes, ps_ok, git_ok \in BOOLEAN :
          /\ ncmd < budget
          /\ DeleteBegin(cwd, target_arg, purge, yes, ps_ok, git_ok)

DeleteStep ==
    \/ \E choice \in -1..(2 * Cardinality(Folders)) : DeletePick(choice)
    \/ \E answer \in Answers \cup {Interrupt} : DeleteConfirm(answer)
    \/ \E git_ok \in BOOLEAN : DeleteProject(git_ok)
    \/ \E answer \in Answers \cup {Interrupt} : DeleteCascade(answer)
    \/ \E ps_ok, stop_ok, rm_ok \in BOOLEAN : DeleteWorktree(ps_ok, stop_ok, rm_ok)
    \/ \E ps_ok \in BOOLEAN : DeleteContainers(ps_ok)
    \/ \E ok \in BOOLEAN : DeleteStop(ok)
    \/ \E ok \in BOOLEAN : DeleteRm(ok)
    \/ \E ok1, ok2 \in BOOLEAN : DeletePurge(ok1, ok2)

----------------------------------------------------------------------------
\* the port a folder's configuration holds in the worlds a prune starts from
InitPort(f) == PORT_MIN + (CHOOSE i \in DOMAIN FolderSeq : FolderSeq[i] = f)

InitName(f) ==
    IF f \in WtFolders THEN get_container_name(Main, Name(f))
    ELSE IF f = Twin THEN get_container_name(TwinMain, Name(f))
    ELSE Name(f)

ContainerRecs(f) ==
    {Absent} \cup [state : {"running", "exited"}, image : Images,
                    name : {InitName(f)}, pub : {InitPort(f)}]

InitCommand ==
    /\ pc = "idle"
    /\ cmd = [name |-> "none"]
    /\ stopped_containers = <<>>
    /\ orphan_containers = <<>>
    /\ stale_worktrees = <<>>
    /\ potential_images = {}
    /\ in_use_images = {}
    /\ todo = <<>>
    /\ log = <<>>
    /\ exit = "none"
    /\ nfail = 0
    /\ snap = Snapshot
    /\ ncmd = 0
    /\ streak = NoStreak
    /\ fcall = NoCall
    /\ processes = <<>> /\ failed = <<>>
    /\ ws = None
    /\ selected = None
    /\ wt_list = <<>>
    /\ containers = <<>>

\* a worktree folder is live, stale (registered, directory gone) or gone
WtConsistent(f) == dirExists[f] => f \in registered

\* the worlds a prune can meet
InitPruneWorld ==
    /\ runtime \in {"docker", None}
    /\ foreign = {}
    /\ \E c \in [Folders \ {Twin} -> UNION {ContainerRecs(f) : f \in Folders}] :
          container = [f \in Folders |-> IF f = Twin THEN Absent ELSE c[f]]
    /\ \A f \in Folders : container[f] \in ContainerRecs(f)
    /\ container[Other].state # "running" /\ container[Other].image # "img1"
    /\ container[Main].image \in {"", "img1"}
    /\ runtime = None => \A f \in Folders : container[f] = Absent
    /\ images = Images
    /\ \E d \in [Folders \ {Twin} -> BOOLEAN] :
          dirExists = [f \in Folders |-> f # Twin /\ d[f]]
    /\ dirExists[Main] /\ dirExists[Other]
    /\ registered \in SUBSET WtFolders
    /\ \A f \in WtFolders : WtConsistent(f)
    /\ branches = {Name(f) : f \in registered}
    /\ cfg = [f \in Folders |-> IF dirExists[f]
                                 THEN build_devcontainer_json(InitName(f), InitPort(f))
                                 ELSE NoCfg]

InitPrune == InitPruneWorld /\ InitCommand

NextPrune == PruneStart(MaxCmds, {Main}) \/ PruneStep

SpecPrune == InitPrune /\ [][NextPrune]_vars

\* the process exits; the next command starts from a fresh process
Return ==
    /\ pc = "done"
    /\ pc' = "idle"
    /\ cmd' = [name |-> "none"]
    /\ NoLocals
    /\ log' = <<>>
    /\ exit' = "none"
    /\ nfail' = 0
    /\ snap' = Snapshot
    /\ ws' = None
    /\ selected' = None
    /\ wt_list' = <<>>
    /\ containers' = <<>>
    /\ UNCHANGED <<world, ncmd, fcall, spawnLocals, streak>>

\* a machine on which nothing has been started yet
FreshWorld ==
    /\ runtime \in {"docker", None}
    /\ foreign \in {{}, {base_port}}
    /\ container = [f \in Folders |-> Absent]
    /\ images = Images
    /\ dirExists = [f \in Folders |-> f \in {Main, Other}]
    /\ registered = {}
    /\ branches = {}
    /\ cfg = [f \in Folders |-> NoCfg]

\* a machine in use: after spawn 2 --prefix x, then up and down in the main
\* checkout and in the other project, then 2-x's folder deleted by hand
BusyWorld ==
    /\ runtime = "docker"
    /\ foreign = {}
    /\ container =
         [f \in Folders |->
            CASE f = Main -> [state |-> "exited", image |-> "img1",
                              name |-> "app", pub |-> PORT_MAX]
              [] f = Other -> [state |-> "exited", image |-> "img2",
                               name |-> "other", pub |-> PORT_MAX]
              [] Name(f) = "1-x" -> [state |-> "running", image |-> "img1",
                                     name |-> "app-1-x", pub |-> PORT_MIN + 1]
              [] Name(f) = "2-x" -> [state |-> "running", image |-> "img1",
                                     name |-> "app-2-x", pub |-> PORT_MIN]
              [] OTHER -> Absent]
    /\ images = Images
    /\ dirExists = [f \in Folders |-> Name(f) # "2-x" /\ f # Twin]
    /\ registered = WtFolders
    /\ branches = WtNames
    /\ cfg =
         [f \in Folders |->
            CASE f = Main -> build_devcontainer_json("app", PORT_MAX)
              [] f = Other -> build_devcontainer_json("other", PORT_MAX)
              [] Name(f) = "1-x" -> [exists |-> TRUE, name |-> "app-1-x",
                                     port |-> base_port, pub |-> PORT_MIN + 1,
                                     mounts |-> Append(BASE_MOUNTS,
                                                       git_mount(Append(Main, ".git")))]
              [] OTHER -> NoCfg]

InitFresh == FreshWorld /\ InitCommand

Init == (FreshWorld \/ BusyWorld) /\ InitCommand

Next ==
    \/ Up(MaxCmds)
    \/ Tree(MaxCmds)
    \/ SpawnStart(MaxCmds)
    \/ PruneStart(MaxCmds, {Main, Outside})
    \/ DeleteStart(MaxCmds)
    \/ Devcontainer
    \/ SpawnStep
    \/ PruneStep
    \/ DeleteStep
    \/ Return

Spec == Init /\ [][Next]_vars

\* a machine that also runs a project of the same directory name under
\* another parent: the container of its worktree is in the runtime's table;
\* or a machine without a runtime, and so without containers
InitTwinWorld ==
    /\ runtime \in {"docker", None}
    /\ foreign = {}
    /\ \E c \in [Folders \ {Twin} -> UNION {ContainerRecs(f) : f \in Folders}],
          t \in ContainerRecs(Twin) :
          container = [f \in Folders |-> IF f = Twin THEN t ELSE c[f]]
    /\ (container[Twin] = Absent) = (runtime = None)
    /\ runtime = None => \A f \in Folders : container[f] = Absent
    /\ \A f \in Folders : container[f] \in ContainerRecs(f)
    /\ \A f \in Folders : container[f].image \in {"", "img1"}
    /\ container[Main].state # "exited"
    /\ container[Other].state # "running"
    /\ runtime # None => container[get_worktree_path(Main, "1-x")].state = "exited"
    /\ container[get_worktree_path(Main, "2-x")].state # "exited"
    /\ images = Images
    /\ \E d \in [WtFolders \cup {Twin} -> BOOLEAN] :
          dirExists = [f \in Folders |-> f \in {Main, Other} \/ d[f]]
    /\ dirExists[get_worktree_path(Main, "1-x")]
    /\ registered = WtFolders
    /\ \A f \in WtFolders : WtConsistent(f)
    /\ branches = {Name(f) : f \in registered}
    /\ cfg = [f \in Folders |-> IF dirExists[f]
                                 THEN build_devcontainer_json(InitName(f), InitPort(f))
                                 ELSE NoCfg]

InitTwin == InitTwinWorld /\ InitCommand

\* prune and delete on that machine
NextTwin ==
    \/ PruneStart(MaxCmds, {Main})
    \/ DeleteStart(MaxCmds)
    \/ PruneStep
    \/ DeleteStep

SpecTwin == InitTwin /\ [][NextTwin]_vars

\* up, tree and spawn alone, from a machine on which nothing has been started
NextUp ==
    \/ Up(MaxUps)
    \/ Tree(MaxUps)
    \/ SpawnStart(MaxUps)
    \/ Devcontainer
    \/ SpawnStep
    \/ Return

SpecUp == InitFresh /\ [][NextUp]_vars


----------------------------------------------------------------------------
(* container.py reassign_port run by itself on a devcontainer.json whose    *)
(* runArgs is a list of strings.  A string is the sequence of its           *)
(* characters, so that str(), the f-string and the test "old_port in arg"   *)
(* are computed.                                                            *)

everything_else == <<runtime, foreign, container, images, dirExists, registered,
                     branches, cfg, ncmd, streak, ws, selected, wt_list, containers,
                     pc, cmd, stopped_containers, orphan_containers, stale_worktrees,
                     potential_images, in_use_images, todo, log, exit, nfail, snap,
                     processes, failed>>

\* str(port)
RECURSIVE Str(_)
Str(n) == IF n < 10 THEN <<ToString(n)>> ELSE Str(n \div 10) \o <<ToString(n % 10)>>

\* f"{new_port}:{new_port}"
Publish(host, inner) == Str(host) \o <<":">> \o Str(inner)

\* old_port in arg
In(sub, text) ==
    \E i \in 0..(Len(text) - Len(sub)) : SubSeq(text, i + 1, i + Len(sub)) = sub

FlagP == <<"-", "p">>

FlagName == <<"-", "-", "n", "a", "m", "e">>

\* the loop over runArgs: the first argument after a "-p" in which the old
\* port's text occurs becomes "new:new", and the loop breaks
RewriteRunArgs(run_args, old_port, new_port) ==
    LET hits == {i \in DOMAIN run_args :
                    i > 1 /\ run_args[i - 1] = FlagP /\ old_port # <<>>
                    /\ In(old_port, run_args[i])}
    IN IF hits = {} THEN run_args
       ELSE LET first == CHOOSE i \in hits : \A k \in hits : i <= k
            IN [run_args EXCEPT ![first] = Publish(new_port, new_port)]

\* the configurations reassign_port is run on: PORT is old, runArgs holds
\* the pair -p old:old among the flags of ArgPairs, in any order
OldPorts == {PORT_MIN, PORT_MIN + 1}

ArgPairs(old) ==
    {<<FlagP, Publish(old, old)>>, <<FlagName, <<"a", "p", "p">>>>,
     <<FlagP, Publish(8080, 80)>>, <<FlagP, Publish(10000 + PORT_MIN, 10000 + PORT_MIN)>>}

MaxPairs == 3

RECURSIVE Flatten(_)
Flatten(pairs) == IF pairs = <<>> THEN <<>> ELSE Head(pairs) \o Flatten(Tail(pairs))

RunArgsOf(old) ==
    {Flatten(order) :
        order \in {o \in UNION {[1..k -> ArgPairs(old)] : k \in 1..MaxPairs} :
                      /\ \A i, j \in DOMAIN o : i # j => o[i] # o[j]
                      /\ \E i \in DOMAIN o : o[i] = <<FlagP, Publish(old, old)>>}}

Configs ==
    UNION {{[PORT |-> Str(old), runArgs |-> ra] : ra \in RunArgsOf(old)} : old \in OldPorts}

InitReassign ==
    /\ runtime = "docker"
    /\ foreign \in SUBSET RandomPorts
    /\ container = [f \in Folders |-> Absent]
    /\ images = Images
    /\ dirExists = [f \in Folders |-> f \in {Main, Other}]
    /\ registered = {} /\ branches = {}
    /\ cfg = [f \in Folders |-> NoCfg]
    /\ pc = "idle" /\ cmd = [name |-> "none"]
    /\ stopped_containers = <<>> /\ orphan_containers = <<>> /\ stale_worktrees = <<>>
    /\ potential_images = {} /\ in_use_images = {}
    /\ todo = <<>> /\ log = <<>> /\ exit = "none" /\ nfail = 0 /\ snap = Snapshot
    /\ ncmd = 0 /\ streak = NoStreak
    /\ processes = <<>> /\ failed = <<>>
    /\ ws = None /\ selected = None /\ wt_list = <<>> /\ containers = <<>>
    /\ \E c \in Configs :
          fcall = [fn |-> "reassign_port", at |-> "random_port", before |-> c,
                   config |-> c, new_port |-> NoPort, rejected |-> {}]

\* new_port = random_port()
ReassignDraw(p) ==
    /\ fcall.fn = "reassign_port" /\ fcall.at = "random_port"
    /\ fcall' = [fcall EXCEPT !.new_port = p, !.at = "is_port_available"]
    /\ UNCHANGED everything_else

\* variant: the first port drawn is taken
ReassignProbeOnce ==
    /\ fcall.fn = "reassign_port" /\ fcall.at = "is_port_available"
    /\ fcall' = [fcall EXCEPT !.at = "write"]
    /\ UNCHANGED everything_else

\* while not is_port_available(new_port); rejected remembers the ports whose
\* probe failed
ReassignProbe ==
    /\ fcall.fn = "reassign_port" /\ fcall.at = "is_port_available"
    /\ fcall' = [fcall EXCEPT
                   !.at = IF is_port_available(fcall.new_port)
                          THEN "write" ELSE "random_port",
                   !.rejected = IF is_port_available(fcall.new_port)
                                THEN @ ELSE @ \cup {fcall.new_port}]
    /\ UNCHANGED everything_else

\* PORT and runArgs are rewritten, the file is written, new_port returned
ReassignWrite ==
    /\ fcall.fn = "reassign_port" /\ fcall.at = "write"
    /\ fcall' = [fcall EXCEPT
                   !.config = [PORT |-> Str(fcall.new_port),
                               runArgs |-> RewriteRunArgs(fcall.config.runArgs,
                                                          fcall.config.PORT,
                                                          fcall.new_port)],
                   !.at = "returned"]
    /\ UNCHANGED everything_else

NextReassign ==
    \/ \E p \in RandomPorts : ReassignDraw(p)
    \/ ReassignProbe
    \/ ReassignWrite

\* the loop runs on, and random_port leaves out no port for ever
SpecReassign ==
    /\ InitReassign
    /\ [][NextReassign]_vars
    /\ WF_vars(ReassignProbe) /\ WF_vars(ReassignWrite)
    /\ \A p \in RandomPorts : SF_vars(ReassignDraw(p))

----------------------------------------------------------------------------
(* commands.py run_spawn_mode: the worktree names and the ports, run by     *)
(* themselves for any count, with and without --prefix.                     *)

\* generate_random_name(): f"{adj}-{noun}"
RandomNames == {"calm-fox", "bold-owl"}

\* args.prefix; "" is no --prefix
Prefixes == {"x", "feat", ""}

\* args.count
MaxCount == 3

\* for _ in range(100): the attempts the model follows
MaxAttempts == 2

AlwaysUnused(random_part, used_names) == TRUE

\* if random_part not in used_names: break
Unused(random_part, used_names) == random_part \notin used_names

\* f"{idx}-{...}"
NumberedName(idx, part) == ToString(idx) \o "-" \o part

InitNames ==
    /\ runtime = "docker"
    /\ foreign = {}
    /\ container = [f \in Folders |-> Absent]
    /\ images = Images
    /\ dirExists = [f \in Folders |-> f \in {Main, Other}]
    /\ registered = {} /\ branches = {}
    /\ cfg = [f \in Folders |-> NoCfg]
    /\ pc = "idle" /\ cmd = [name |-> "none"]
    /\ stopped_containers = <<>> /\ orphan_containers = <<>> /\ stale_worktrees = <<>>
    /\ potential_images = {} /\ in_use_images = {}
    /\ todo = <<>> /\ log = <<>> /\ exit = "none" /\ nfail = 0 /\ snap = Snapshot
    /\ ncmd = 0 /\ streak = NoStreak
    /\ processes = <<>> /\ failed = <<>>
    /\ ws = None /\ selected = None /\ wt_list = <<>> /\ containers = <<>>
    /\ \E n \in 1..MaxCount, p \in Prefixes :
          fcall = [fn |-> "worktree_names", at |-> "for i", n |-> n, prefix |-> p,
                   i |-> 0, attempt |-> 0, used_names |-> {},
                   random_parts |-> <<>>, attempts |-> <<>>,
                   worktree_names |-> <<>>, ports |-> <<>>]

\* used_names.add(random_part); name = f"{idx}-{random_part}";
\* worktree_names.append(name)
NamesAppend(random_part, attempts) ==
    fcall' = [fcall EXCEPT
                !.used_names = @ \cup {random_part},
                !.random_parts = Append(@, random_part),
                !.attempts = Append(@, attempts),
                !.worktree_names = Append(@, NumberedName(fcall.i + 1, random_part)),
                !.i = @ + 1,
                !.attempt = 0,
                !.at = "for i"]

\* for i in range(n): the name with --prefix, else on to the draws
NamesNext ==
    /\ fcall.fn = "worktree_names" /\ fcall.at = "for i"
    /\ UNCHANGED everything_else
    /\ IF fcall.i = fcall.n
       THEN fcall' = [fcall EXCEPT !.at = "enumerate"]
       ELSE IF fcall.prefix # ""
       THEN fcall' = [fcall EXCEPT
                        !.worktree_names =
                            Append(@, NumberedName(fcall.i + 1, fcall.prefix)),
                        !.i = @ + 1]
       ELSE fcall' = [fcall EXCEPT !.at = "for _"]

\* for _ in range(100): random_part = generate_random_name(); break if it
\* is not in used_names
NamesDraw(random_part) ==
    /\ fcall.fn = "worktree_names" /\ fcall.at = "for _"
    /\ fcall.attempt < MaxAttempts
    /\ UNCHANGED everything_else
    /\ IF Unused(random_part, fcall.used_names)
       THEN NamesAppend(random_part, fcall.attempt + 1)
       ELSE fcall' = [fcall EXCEPT !.attempt = @ + 1]

\* the for loop's else: random_part = f"spawn-{idx}"
NamesFallback ==
    /\ fcall.fn = "worktree_names" /\ fcall.at = "for _"
    /\ fcall.attempt = MaxAttempts
    /\ UNCHANGED everything_else
    /\ NamesAppend("spawn-" \o ToString(fcall.i + 1), fcall.attempt)

\* for i, name in enumerate(worktree_names): port = base_port + i
NamesPorts ==
    /\ fcall.fn = "worktree_names" /\ fcall.at = "enumerate"
    /\ UNCHANGED everything_else
    /\ fcall' = [fcall EXCEPT
                   !.ports = [k \in DOMAIN fcall.worktree_names |-> base_port + (k - 1)],
                   !.at = "returned"]

NextNames ==
    \/ NamesNext
    \/ \E random_part \in RandomNames : NamesDraw(random_part)
    \/ NamesFallback
    \/ NamesPorts

SpecNames == InitNames /\ [][NextNames]_vars

----------------------------------------------------------------------------
(* The end of run_spawn_mode by itself, from the wait loop on: the failed   *)
(* list, the two filtered lists and spawn_tmux_multipane.  A name is the    *)
(* sequence of its path components, so that a --prefix holding a "/" is     *)
(* followed through get_worktree_path and Path.name.                        *)

\* --prefix x and --prefix feat/x
FanPrefixes == {<<"x">>, <<"feat", "x">>}

\* the counts of a spawn followed to its windows
FanCounts == 1..MaxCount

\* f"{idx}-{args.prefix}"
PrefixedName(idx, prefix_parts) ==
    <<ToString(idx) \o "-" \o Head(prefix_parts)>> \o Tail(prefix_parts)

\* worktree.py get_worktree_path: <parent>/<project>-worktrees/<name>
WorktreePathOf(project_path, name_parts) ==
    Append(Parent(project_path), Name(project_path) \o "-worktrees") \o name_parts

\* path.name
DirName(path) == <<Name(path)>>

\* x not in failed
NotIn(x, names) == \A k \in DOMAIN names : names[k] # x

TmuxCall(op, name, folder) == [op |-> op, name |-> name, folder |-> folder]

InitFanout ==
    /\ runtime = "docker"
    /\ foreign = {}
    /\ container = [f \in Folders |-> Absent]
    /\ images = Images
    /\ dirExists = [f \in Folders |-> f \in {Main, Other}]
    /\ registered = {} /\ branches = {}
    /\ cfg = [f \in Folders |-> NoCfg]
    /\ pc = "idle" /\ cmd = [name |-> "none"]
    /\ stopped_containers = <<>> /\ orphan_containers = <<>> /\ stale_worktrees = <<>>
    /\ potential_images = {} /\ in_use_images = {}
    /\ todo = <<>> /\ log = <<>> /\ exit = "none" /\ nfail = 0 /\ snap = Snapshot
    /\ ncmd = 0 /\ streak = NoStreak
    /\ processes = <<>> /\ failed = <<>>
    /\ ws = None /\ selected = None /\ wt_list = <<>> /\ containers = <<>>
    /\ \E n \in FanCounts, parts \in FanPrefixes, prompt \in BOOLEAN :
       \E returncodes \in [1..n -> {0, 1}] :
          LET names == [k \in 1..n |-> PrefixedName(k, parts)]
          IN fcall = [fn |-> "spawn_tmux_multipane", at |-> "communicate",
                      prompt |-> prompt, returncodes |-> returncodes,
                      all_names |-> names,
                      all_paths |-> [k \in 1..n |-> WorktreePathOf(Main, names[k])],
                      i |-> 0, failed |-> <<>>,
                      worktree_paths |-> <<>>, worktree_names |-> <<>>, tmux |-> <<>>]

\* for path, proc in processes: communicate; failed.append(path.name)
FanCommunicate ==
    /\ fcall.fn = "spawn_tmux_multipane" /\ fcall.at = "communicate"
    /\ fcall.i < Len(fcall.all_paths)
    /\ UNCHANGED everything_else
    /\ fcall' = [fcall EXCEPT
                   !.i = @ + 1,
                   !.failed = IF fcall.returncodes[fcall.i + 1] # 0
                              THEN Append(@, DirName(fcall.all_paths[fcall.i + 1]))
                              ELSE @]

\* if not args.prompt: return; else the two lists without the failed
FanFilter ==
    /\ fcall.fn = "spawn_tmux_multipane" /\ fcall.at = "communicate"
    /\ fcall.i = Len(fcall.all_paths)
    /\ UNCHANGED everything_else
    /\ IF ~fcall.prompt
       THEN fcall' = [fcall EXCEPT !.at = "returned"]
       ELSE fcall' = [fcall EXCEPT
                        !.worktree_paths =
                           SelectSeq(fcall.all_paths,
                                     LAMBDA q : NotIn(DirName(q), fcall.failed)),
                        !.worktree_names =
                           SelectSeq(fcall.all_names, LAMBDA n : NotIn(n, fcall.failed)),
                        !.at = "n == 0"]

\* variant: the session of an earlier spawn is left alone
FanSessionKept ==
    /\ fcall.fn = "spawn_tmux_multipane" /\ fcall.at = "n == 0"
    /\ UNCHANGED everything_else
    /\ fcall' = [fcall EXCEPT !.i = 0,
                              !.at = IF Len(fcall.worktree_paths) = 0 THEN "returned"
                                     ELSE "window"]

\* spawn_tmux_multipane: nothing to attach to, or kill-session
FanSession ==
    /\ fcall.fn = "spawn_tmux_multipane" /\ fcall.at = "n == 0"
    /\ UNCHANGED everything_else
    /\ IF Len(fcall.worktree_paths) = 0
       THEN fcall' = [fcall EXCEPT !.at = "returned"]
       ELSE fcall' = [fcall EXCEPT !.tmux = <<TmuxCall("kill-session", <<>>, <<>>)>>,
                                   !.i = 0, !.at = "window"]

\* new-session for the first, new-window for the others; send-keys; attach
FanWindow ==
    /\ fcall.fn = "spawn_tmux_multipane" /\ fcall.at = "window"
    /\ UNCHANGED everything_else
    /\ IF fcall.i = Len(fcall.worktree_paths)
       THEN fcall' = [fcall EXCEPT !.tmux = Append(@, TmuxCall("attach", <<>>, <<>>)),
                                   !.at = "returned"]
       ELSE IF fcall.i + 1 \notin DOMAIN fcall.worktree_names
       THEN fcall' = [fcall EXCEPT !.at = "failed"]
       ELSE LET name == fcall.worktree_names[fcall.i + 1]
                path == fcall.worktree_paths[fcall.i + 1]
            IN fcall' = [fcall EXCEPT
                           !.tmux = @ \o <<TmuxCall(IF fcall.i = 0 THEN "new-session"
                                                    ELSE "new-window", name, <<>>),
                                           TmuxCall("send-keys", name, path)>>,
                           !.i = @ + 1]

NextFanout ==
    \/ FanCommunicate
    \/ FanFilter
    \/ FanSession
    \/ FanWindow

SpecFanout == InitFanout /\ [][NextFanout]_vars

----------------------------------------------------------------------------
(* The container operations of container.py, each run by itself: what it    *)
(* returns and the runtime processes it starts.                             *)

Returns(result, calls) == [result |-> result, calls |-> calls]

\* the ps query, if there is a runtime to ask
Ps == IF get_container_runtime = None THEN <<>> ELSE <<Call("ps", "")>>

\* container.py get_container_for_workspace: the name, or None
get_container_for_workspace(workspace_dir, ps_ok) ==
    IF get_container_runtime = None \/ ~ps_ok \/ container[workspace_dir].state = "absent"
    THEN None
    ELSE container[workspace_dir].name

\* variant: the runtime is asked to stop, found or not
stop_container_unguarded(workspace_dir, ps_ok, ok) ==
    Returns(ok, <<Call("ps", ""), Call("stop", container[workspace_dir].name)>>)

\* container.py stop_container
stop_container(workspace_dir, ps_ok, ok) ==
    IF get_container_runtime = None THEN Returns(FALSE, <<>>)
    ELSE LET container_name == get_container_for_workspace(workspace_dir, ps_ok)
         IN IF container_name = None THEN Returns(FALSE, Ps)
            ELSE Returns(ok, Ps \o <<Call("stop", container_name)>>)

\* container.py remove_container
remove_container(container_name, ok) ==
    IF get_container_runtime = None THEN Returns(FALSE, <<>>)
    ELSE Returns(ok, <<Call("rm", container_name)>>)

\* container.py remove_image
remove_image(image_id, ok) ==
    IF get_container_runtime = None THEN Returns(FALSE, <<>>)
    ELSE Returns(ok, <<Call("rmi", image_id)>>)

OpNames == {"list_all_devcontainers", "get_container_for_workspace",
            "is_container_running", "find_containers_for_project",
            "stop_container", "remove_container", "remove_image"}

\* all but the function called and what the runtime holds
ops_else == <<runtime, foreign, dirExists, registered, branches, cfg, ncmd, streak, ws,
              selected, wt_list, containers, pc, cmd, stopped_containers,
              orphan_containers, stale_worktrees, potential_images, in_use_images,
              todo, log, exit, nfail, snap, processes, failed>>

\* a machine with or without a runtime on PATH; the containers of an earlier
\* day may still be there
InitOps ==
    /\ runtime \in {"docker", None}
    /\ foreign = {}
    /\ \E m \in ContainerRecs(Main), o \in ContainerRecs(Other) :
          container = [f \in Folders |-> CASE f = Main -> m [] f = Other -> o
                                            [] OTHER -> Absent]
    /\ container[Other].state # "running"
    /\ images = Images
    /\ dirExists = [f \in Folders |-> f \in {Main, Other}]
    /\ registered = {} /\ branches = {}
    /\ cfg = [f \in Folders |-> NoCfg]
    /\ pc = "idle" /\ cmd = [name |-> "none"]
    /\ stopped_containers = <<>> /\ orphan_containers = <<>> /\ stale_worktrees = <<>>
    /\ potential_images = {} /\ in_use_images = {}
    /\ todo = <<>> /\ log = <<>> /\ exit = "none" /\ nfail = 0 /\ snap = Snapshot
    /\ ncmd = 0 /\ streak = NoStreak
    /\ processes = <<>> /\ failed = <<>>
    /\ ws = None /\ selected = None /\ wt_list = <<>> /\ containers = <<>>
    /\ \E fn \in OpNames, workspace_dir \in {Main, Other}, image_id \in Images :
          fcall = [fn |-> fn, at |-> "call", workspace_dir |-> workspace_dir,
                   container_name |-> InitName(workspace_dir), image_id |-> image_id,
                   out |-> Returns(FALSE, <<>>)]

OpsReturn(fn, out) ==
    /\ fcall.fn = fn /\ fcall.at = "call"
    /\ fcall' = [fcall EXCEPT !.at = "returned", !.out = out]
    /\ UNCHANGED ops_else

OpsList(ps_ok) ==
    /\ OpsReturn("list_all_devcontainers", Returns(list_all_devcontainers(ps_ok), Ps))
    /\ UNCHANGED <<container, images>>

OpsFindForWorkspace(ps_ok) ==
    /\ OpsReturn("get_container_for_workspace",
                 Returns(get_container_for_workspace(fcall.workspace_dir, ps_ok), Ps))
    /\ UNCHANGED <<container, images>>

OpsIsRunning(ps_ok) ==
    /\ OpsReturn("is_container_running",
                 Returns(is_container_running(fcall.workspace_dir, ps_ok), Ps))
    /\ UNCHANGED <<container, images>>

OpsFindForProject(ps_ok) ==
    /\ OpsReturn("find_containers_for_project",
                 Returns(find_containers_for_project(fcall.workspace_dir, None, ps_ok), Ps))
    /\ UNCHANGED <<container, images>>

OpsStop(ps_ok, ok) ==
    LET out == stop_container(fcall.workspace_dir, ps_ok, ok)
    IN /\ OpsReturn("stop_container", out)
       /\ ok => get_container_for_workspace(fcall.workspace_dir, ps_ok) # None
       /\ container' = IF out.result
                        THEN [container EXCEPT ![fcall.workspace_dir].state = "exited"]
                        ELSE container
       /\ UNCHANGED images

OpsRemove(ok) ==
    LET out == remove_container(fcall.container_name, ok)
    IN /\ OpsReturn("remove_container", out)
       /\ ok => get_container_runtime # None /\ CanRemove(fcall.container_name)
       /\ container' = IF out.result
                        THEN [container EXCEPT ![FolderOfName(fcall.container_name)] = Absent]
                        ELSE container
       /\ UNCHANGED images

OpsRemoveImage(ok) ==
    LET out == remove_image(fcall.image_id, ok)
    IN /\ OpsReturn("remove_image", out)
       /\ ok => get_container_runtime # None /\ CanRemoveImage(fcall.image_id)
       /\ images' = IF out.result THEN images \ {fcall.image_id} ELSE images
       /\ UNCHANGED container

NextOps ==
    \/ \E ps_ok \in BOOLEAN : OpsList(ps_ok)
    \/ \E ps_ok \in BOOLEAN : OpsFindForWorkspace(ps_ok)
    \/ \E ps_ok \in BOOLEAN : OpsIsRunning(ps_ok)
    \/ \E ps_ok \in BOOLEAN : OpsFindForProject(ps_ok)
    \/ \E ps_ok, ok \in BOOLEAN : OpsStop(ps_ok, ok)
    \/ \E ok \in BOOLEAN : OpsRemove(ok)
    \/ \E ok \in BOOLEAN : OpsRemoveImage(ok)

SpecOps == InitOps /\ [][NextOps]_vars

----------------------------------------------------------------------------
(* worktree.py find_stale_worktrees run again and again while worktree      *)
(* directories are deleted by hand and come back.                           *)

\* the calls of one run that are followed
MaxFinds == 3

\* all but the function called and the directories
stale_else == <<runtime, foreign, container, images, registered, branches, cfg, ncmd,
                streak, ws, selected, wt_list, containers, pc, cmd, stopped_containers,
                orphan_containers, stale_worktrees, potential_images, in_use_images,
                todo, log, exit, nfail, snap, processes, failed>>

InitStale ==
    /\ runtime = "docker"
    /\ foreign = {}
    /\ container = [f \in Folders |-> Absent]
    /\ images = Images
    /\ registered \in SUBSET WtFolders
    /\ \E d \in [WtFolders -> BOOLEAN] :
          dirExists = [f \in Folders |-> f \in {Main, Other} \/ (f \in WtFolders /\ d[f])]
    /\ \A f \in WtFolders : WtConsistent(f)
    /\ branches = {Name(f) : f \in registered}
    /\ cfg = [f \in Folders |-> NoCfg]
    /\ pc = "idle" /\ cmd = [name |-> "none"]
    /\ stopped_containers = <<>> /\ orphan_containers = <<>> /\ stale_worktrees = <<>>
    /\ potential_images = {} /\ in_use_images = {}
    /\ todo = <<>> /\ log = <<>> /\ exit = "none" /\ nfail = 0 /\ snap = Snapshot
    /\ ncmd = 0 /\ streak = NoStreak
    /\ processes = <<>> /\ failed = <<>>
    /\ ws = None /\ selected = None /\ wt_list = <<>> /\ containers = <<>>
    /\ fcall = [fn |-> "find_stale_worktrees", at |-> "call", git_root |-> Main,
                returned |-> <<>>]

\* rm -rf of a worktree's directory, by hand
StaleRmtree(f) ==
    /\ fcall.fn = "find_stale_worktrees"
    /\ dirExists[f]
    /\ dirExists' = [dirExists EXCEPT ![f] = FALSE]
    /\ fcall' = [fcall EXCEPT !.at = "call"]
    /\ UNCHANGED stale_else

\* the directory of a registered worktree is there again
StaleRecreate(f) ==
    /\ fcall.fn = "find_stale_worktrees"
    /\ f \in registered /\ ~dirExists[f]
    /\ dirExists' = [dirExists EXCEPT ![f] = TRUE]
    /\ fcall' = [fcall EXCEPT !.at = "call"]
    /\ UNCHANGED stale_else

\* find_stale_worktrees(git_root)
StaleFind ==
    /\ fcall.fn = "find_stale_worktrees" /\ fcall.at = "call"
    /\ Len(fcall.returned) < MaxFinds
    /\ fcall' = [fcall EXCEPT
                   !.at = "returned",
                   !.returned = Append(@, find_stale_worktrees(fcall.git_root, TRUE))]
    /\ UNCHANGED <<stale_else, dirExists>>

NextStale ==
    \/ \E f \in WtFolders : StaleRmtree(f)
    \/ \E f \in WtFolders : StaleRecreate(f)
    \/ StaleFind

SpecStale == InitStale /\ [][NextStale]_vars

----------------------------------------------------------------------------
(* find_project_workspaces by itself, while the sibling worktrees directory *)
(* of the project is made and removed.                                      *)

\* variant: every entry of the worktree list is appended
find_all_workspaces(git_root, worktrees_dir_exists, git_ok) ==
    <<<<git_root, "main">>>> \o
    (IF worktrees_dir_exists
     THEN MapSeq(list_worktrees(git_root, git_ok),
                 LAMBDA w : <<w[1], IF w[3] # "" THEN w[3] ELSE Name(w[1])>>)
     ELSE <<>>)

\* worktree.py find_project_workspaces: (path, type); worktrees_dir_exists is
\* whether git_root.parent / "<name>-worktrees" is there
find_project_workspaces(git_root, worktrees_dir_exists, git_ok) ==
    <<<<git_root, "main">>>> \o
    (IF worktrees_dir_exists
     THEN MapSeq(SelectSeq(list_worktrees(git_root, git_ok), LAMBDA w : w[1] # git_root),
                 LAMBDA w : <<w[1], IF w[3] # "" THEN w[3] ELSE Name(w[1])>>)
     ELSE <<>>)

\* a worktrees directory that holds a directory is there
HoldsWorktree(git_root) == \E f \in WorktreesUnder(git_root) : dirExists[f]

InitWorkspaces ==
    /\ runtime = "docker"
    /\ foreign = {}
    /\ container = [f \in Folders |-> Absent]
    /\ images = Images
    /\ registered \in SUBSET WtFolders
    /\ \E d \in [WtFolders -> BOOLEAN] :
          dirExists = [f \in Folders |-> f \in {Main, Other} \/ (f \in WtFolders /\ d[f])]
    /\ \A f \in WtFolders : WtConsistent(f)
    /\ branches = {Name(f) : f \in registered}
    /\ cfg = [f \in Folders |-> NoCfg]
    /\ pc = "idle" /\ cmd = [name |-> "none"]
    /\ stopped_containers = <<>> /\ orphan_containers = <<>> /\ stale_worktrees = <<>>
    /\ potential_images = {} /\ in_use_images = {}
    /\ todo = <<>> /\ log = <<>> /\ exit = "none" /\ nfail = 0 /\ snap = Snapshot
    /\ ncmd = 0 /\ streak = NoStreak
    /\ processes = <<>> /\ failed = <<>>
    /\ ws = None /\ selected = None /\ wt_list = <<>> /\ containers = <<>>
    /\ \E git_root \in {Main, Other}, there \in BOOLEAN :
          /\ HoldsWorktree(git_root) => there
          /\ fcall = [fn |-> "find_project_workspaces", at |-> "call",
                      git_root |-> git_root, worktrees_dir |-> there, git_ok |-> TRUE,
                      returned |-> <<>>]

\* mkdir of the worktrees directory
WsMkdir ==
    /\ fcall.fn = "find_project_workspaces" /\ ~fcall.worktrees_dir
    /\ fcall' = [fcall EXCEPT !.worktrees_dir = TRUE, !.at = "call", !.returned = <<>>]
    /\ UNCHANGED everything_else

\* rmdir of the empty worktrees directory
WsRmdir ==
    /\ fcall.fn = "find_project_workspaces" /\ fcall.worktrees_dir
    /\ ~HoldsWorktree(fcall.git_root)
    /\ fcall' = [fcall EXCEPT !.worktrees_dir = FALSE, !.at = "call", !.returned = <<>>]
    /\ UNCHANGED everything_else

\* find_project_workspaces(git_root)
WsFind(git_ok) ==
    /\ fcall.fn = "find_project_workspaces" /\ fcall.at = "call"
    /\ fcall' = [fcall EXCEPT
                   !.at = "returned", !.git_ok = git_ok,
                   !.returned = find_project_workspaces(fcall.git_root,
                                                        fcall.worktrees_dir, git_ok)]
    /\ UNCHANGED everything_else

NextWorkspaces ==
    \/ WsMkdir
    \/ WsRmdir
    \/ \E git_ok \in BOOLEAN : WsFind(git_ok)

SpecWorkspaces == InitWorkspaces /\ [][NextWorkspaces]_vars

----------------------------------------------------------------------------
(* Two up invocations on one workspace, each a process of its own: the      *)
(* is_container_running test of run_up_mode and the devcontainer up that    *)
(* follows it, in any interleaving.  Nothing is locked.                     *)

Procs == {1, 2}

InitRace ==
    /\ runtime = "docker"
    /\ foreign = {}
    /\ \E c \in ContainerRecs(Main) :
          container = [f \in Folders |-> IF f = Main THEN c ELSE Absent]
    /\ images = Images
    /\ dirExists = [f \in Folders |-> f \in {Main, Other}]
    /\ registered = {} /\ branches = {}
    /\ cfg = [f \in Folders |->
                IF f = Main THEN build_devcontainer_json(InitName(f), InitPort(f))
                ELSE NoCfg]
    /\ pc = "idle" /\ cmd = [name |-> "none"]
    /\ stopped_containers = <<>> /\ orphan_containers = <<>> /\ stale_worktrees = <<>>
    /\ potential_images = {} /\ in_use_images = {}
    /\ todo = <<>> /\ log = <<>> /\ exit = "none" /\ nfail = 0 /\ snap = Snapshot
    /\ ncmd = 0 /\ streak = NoStreak
    /\ processes = <<>> /\ failed = <<>>
    /\ ws = None /\ selected = None /\ wt_list = <<>> /\ containers = <<>>
    /\ fcall = [fn |-> "run_up_mode", git_root |-> Main,
                at |-> [p \in Procs |-> "is_container_running"],
                already_running |-> [p \in Procs |-> FALSE],
                events |-> <<>>]

\* already_running = is_container_running(git_root); if args.new or not
\* already_running (without --new)
RaceCheck(p, ps_ok) ==
    /\ fcall.fn = "run_up_mode" /\ fcall.at[p] = "is_container_running"
    /\ LET already_running == is_container_running(fcall.git_root, ps_ok) IN
       fcall' = [fcall EXCEPT
                   !.already_running[p] = already_running,
                   !.at[p] = IF NeedsStart(FALSE, already_running)
                             THEN "devcontainer_up" ELSE "done",
                   !.events = Append(@, <<p, "is_container_running">>)]
    /\ UNCHANGED <<ops_else, container, images>>

\* devcontainer_up(git_root): the start command
RaceStart(p, ok) ==
    /\ fcall.fn = "run_up_mode" /\ fcall.at[p] = "devcontainer_up"
    /\ ok => CanStart(fcall.git_root, FALSE)
    /\ container' = [container EXCEPT
                       ![fcall.git_root] = Started(fcall.git_root, FALSE, ok,
                                                   ImageFor(fcall.git_root))]
    /\ images' = images \cup ({container'[fcall.git_root].image} \ {""})
    /\ fcall' = [fcall EXCEPT !.at[p] = "done",
                              !.events = Append(@, <<p, "up">>)]
    /\ UNCHANGED ops_else

NextRace ==
    \/ \E p \in Procs, ps_ok \in BOOLEAN : RaceCheck(p, ps_ok)
    \/ \E p \in Procs, ok \in BOOLEAN : RaceStart(p, ok)

SpecRace == InitRace /\ [][NextRace]_vars

----------------------------------------------------------------------------
(* delete with a bare name, run in the main checkout or in one of the       *)
(* project's worktrees.                                                     *)

\* the project's checkouts are there, each with a running container or none
InitNamedWorld ==
    /\ runtime = "docker"
    /\ foreign = {}
    /\ \E up \in [{Main} \cup WtFolders -> BOOLEAN] :
          container =
             [f \in Folders |->
                IF f \in {Main} \cup WtFolders /\ up[f]
                THEN [state |-> "running", image |-> "img1", name |-> InitName(f),
                      pub |-> InitPort(f)]
                ELSE Absent]
    /\ images = Images
    /\ dirExists = [f \in Folders |-> f # Twin]
    /\ registered = WtFolders
    /\ branches = WtNames
    /\ cfg = [f \in Folders |->
                IF f = Twin THEN NoCfg
                ELSE build_devcontainer_json(InitName(f), InitPort(f))]

InitNamed == InitNamedWorld /\ InitCommand

\* the names a worktree is asked for by
NamedTargets == WtNames \cup {Name(Main), "nope"}

DeleteNamed(budget) ==
    \E cwd \in {Main} \cup WtFolders, target_arg \in NamedTargets,
       yes, ps_ok, git_ok \in BOOLEAN :
          /\ ncmd < budget
          /\ DeleteBegin(cwd, target_arg, FALSE, yes, ps_ok, git_ok)

NextNamed ==
    \/ DeleteNamed(MaxCmds)
    \/ \E answer \in Answers \cup {Interrupt} : DeleteConfirm(answer)
    \/ \E ps_ok, stop_ok, rm_ok \in BOOLEAN : DeleteWorktree(ps_ok, stop_ok, rm_ok)

SpecNamed == InitNamed /\ [][NextNamed]_vars

----------------------------------------------------------------------------
(* get_worktree_path by itself, on the text of the project path with and    *)
(* without a trailing slash.  Texts are sequences of characters; a path is  *)
(* what pathlib makes of a text: whether it is absolute, and its parts.     *)

\* str.rstrip("/"): every trailing slash goes
RECURSIVE rstrip(_)
rstrip(text) ==
    IF text # <<>> /\ text[Len(text)] = "/" THEN rstrip(SubSeq(text, 1, Len(text) - 1))
    ELSE text

\* the pieces of a text between slashes, the empty ones and "." left out
RECURSIVE Pieces(_, _)
Pieces(text, piece) ==
    LET done == IF piece \in {<<>>, <<".">>} THEN <<>> ELSE <<piece>>
    IN IF text = <<>> THEN done
       ELSE IF Head(text) = "/" THEN done \o Pieces(Tail(text), <<>>)
       ELSE Pieces(Tail(text), Append(piece, Head(text)))

\* pathlib Path(text), for texts that do not start with two slashes
PurePath(text) ==
    [abs |-> text # <<>> /\ Head(text) = "/", parts |-> Pieces(text, <<>>)]

\* Path.name
PureName(path) == IF path.parts = <<>> THEN <<>> ELSE path.parts[Len(path.parts)]

\* Path.parent
PureParent(path) ==
    IF path.parts = <<>> THEN path
    ELSE [path EXCEPT !.parts = SubSeq(@, 1, Len(@) - 1)]

\* path / text: an absolute text replaces the path
JoinPath(path, text) ==
    IF PurePath(text).abs THEN PurePath(text)
    ELSE [path EXCEPT !.parts = @ \o PurePath(text).parts]

\* str(path)
RECURSIVE Slashed(_)
Slashed(parts) ==
    IF parts = <<>> THEN <<>>
    ELSE IF Len(parts) = 1 THEN parts[1]
    ELSE parts[1] \o <<"/">> \o Slashed(Tail(parts))

PureStr(path) ==
    IF path.abs THEN <<"/">> \o Slashed(path.parts)
    ELSE IF path.parts = <<>> THEN <<".">> ELSE Slashed(path.parts)

Worktrees == <<"-", "w", "o", "r", "k", "t", "r", "e", "e", "s">>

\* worktree.py get_worktree_path on the text project_path
get_worktree_path_text(project_path, worktree_name) ==
    LET path == PurePath(rstrip(project_path))
        project_name == PureName(path)
        worktrees_dir == JoinPath(PureParent(path), project_name \o Worktrees)
    IN JoinPath(worktrees_dir, worktree_name)

\* project paths without a trailing slash, and names, as a command line gives them
ProjectTexts ==
    {<<"/", "h", "/", "a", "p", "p">>, <<"/", "a", "p", "p">>, <<"a", "p", "p">>, <<"h", "/", "a", "p", "p">>, <<"/", "h", "/", "m", "y", ".", "a", "p", "p">>, <<"/", "h", "/", "g", "/", "a", "p", "p">>}

NameTexts ==
    {<<"f", "e", "a", "t">>, <<"1", "-", "x">>, <<"f", "e", "a", "t", "/", "x">>, <<".", ".">>, <<"/", "t", "m", "p">>, <<"a">>}

NotCalled == [abs |-> FALSE, parts |-> <<<<"?">>>>]

InitPath ==
    /\ runtime = "docker"
    /\ foreign = {}
    /\ container = [f \in Folders |-> Absent]
    /\ images = Images
    /\ dirExists = [f \in Folders |-> f \in {Main, Other}]
    /\ registered = {} /\ branches = {}
    /\ cfg = [f \in Folders |-> NoCfg]
    /\ pc = "idle" /\ cmd = [name |-> "none"]
    /\ stopped_containers = <<>> /\ orphan_containers = <<>> /\ stale_worktrees = <<>>
    /\ potential_images = {} /\ in_use_images = {}
    /\ todo = <<>> /\ log = <<>> /\ exit = "none" /\ nfail = 0 /\ snap = Snapshot
    /\ ncmd = 0 /\ streak = NoStreak
    /\ processes = <<>> /\ failed = <<>>
    /\ ws = None /\ selected = None /\ wt_list = <<>> /\ containers = <<>>
    /\ \E project_path \in ProjectTexts, worktree_name \in NameTexts :
          fcall = [fn |-> "get_worktree_path", project_path |-> project_path,
                   worktree_name |-> worktree_name,
                   plain |-> NotCalled, slashed |-> NotCalled]

\* get_worktree_path(P, N)
PathPlain ==
    /\ fcall.fn = "get_worktree_path" /\ fcall.plain = NotCalled
    /\ fcall' = [fcall EXCEPT
                   !.plain = get_worktree_path_text(fcall.project_path,
                                                    fcall.worktree_name)]
    /\ UNCHANGED everything_else

\* get_worktree_path(P + "/", N)
PathSlashed ==
    /\ fcall.fn = "get_worktree_path" /\ fcall.slashed = NotCalled
    /\ fcall' = [fcall EXCEPT
                   !.slashed = get_worktree_path_text(Append(fcall.project_path, "/"),
                                                      fcall.worktree_name)]
    /\ UNCHANGED everything_else

NextPath == PathPlain \/ PathSlashed

SpecPath == InitPath /\ [][NextPath]_vars

PathReturned ==
    fcall.fn = "get_worktree_path" /\ fcall.plain # NotCalled /\ fcall.slashed # NotCalled

\* <parent(P)>/<basename(P)>-worktrees/<N>, read as a path
PathLaw(project_path, worktree_name) ==
    PurePath(PureStr(PureParent(PurePath(project_path))) \o <<"/">>
             \o PureName(PurePath(project_path)) \o Worktrees \o <<"/">>
             \o worktree_name)

\* C29: for a project path P without trailing slash and a name N,
\* get_worktree_path(P, N) equals get_worktree_path(P + "/", N), and both are
\* the path <parent(P)>/<basename(P)>-worktrees/<N>.
C29_PathLaw ==
    PathReturned =>
       /\ fcall.plain = fcall.slashed
       /\ fcall.plain = PathLaw(fcall.project_path, fcall.worktree_name)

----------------------------------------------------------------------------
(* get_or_create_worktree by itself, called up to MaxGets times in a row on *)
(* a project whose worktrees may already be there.                          *)

MaxGets == 2

\* all but the function called and what git worktree add and the copy change
wt_else == <<runtime, foreign, container, images, ncmd, streak, ws, selected, wt_list,
             containers, pc, cmd, stopped_containers, orphan_containers,
             stale_worktrees, potential_images, in_use_images, todo, log, exit, nfail,
             snap, processes, failed>>

\* what a call can change
WtState == [dirExists |-> dirExists, registered |-> registered, branches |-> branches,
            cfg |-> cfg]

InitWorktree ==
    /\ runtime = "docker"
    /\ foreign = {}
    /\ container = [f \in Folders |-> Absent]
    /\ images = Images
    /\ registered \in SUBSET WtFolders
    /\ dirExists = [f \in Folders |-> f \in {Main, Other} \/ f \in registered]
    /\ branches = {Name(f) : f \in registered}
    /\ \E main \in {NoCfg, build_devcontainer_json(Name(Main), InitPort(Main))},
          mounted \in [WtFolders -> BOOLEAN] :
          cfg = [f \in Folders |->
                   IF f = Main THEN main
                   ELSE IF f \in registered
                   THEN (IF mounted[f]
                         THEN add_worktree_git_mount(
                                  build_devcontainer_json(InitName(f), InitPort(f)),
                                  Append(Main, ".git"))
                         ELSE NoCfg)
                   ELSE NoCfg]
    /\ \A f \in WtFolders \ registered : cfg[f] = NoCfg
    /\ pc = "idle" /\ cmd = [name |-> "none"]
    /\ stopped_containers = <<>> /\ orphan_containers = <<>> /\ stale_worktrees = <<>>
    /\ potential_images = {} /\ in_use_images = {}
    /\ todo = <<>> /\ log = <<>> /\ exit = "none" /\ nfail = 0 /\ snap = Snapshot
    /\ ncmd = 0 /\ streak = NoStreak
    /\ processes = <<>> /\ failed = <<>>
    /\ ws = None /\ selected = None /\ wt_list = <<>> /\ containers = <<>>
    /\ fcall = [fn |-> "get_or_create_worktree", at |-> "call", git_root |-> Main,
                names |-> <<>>, existed |-> FALSE, before |-> WtState,
                calls |-> <<>>, result |-> <<>>, exited |-> FALSE]

\* get_or_create_worktree(git_root, worktree_name, worktree_path, config=...)
WtGetOrCreate(worktree_name, port, add_ok) ==
    /\ fcall.fn = "get_or_create_worktree"
    /\ Len(fcall.names) < MaxGets
    /\ ~fcall.exited
    /\ LET git_root == fcall.git_root
           worktree_path == get_worktree_path(git_root, worktree_name)
           called == [fcall EXCEPT !.at = "returned",
                                   !.names = Append(@, worktree_name),
                                   !.existed = PathExists(worktree_path),
                                   !.before = WtState]
       IN
       IF PathExists(worktree_path)
       THEN \* return worktree_path
            /\ fcall' = [called EXCEPT !.calls = <<>>, !.result = worktree_path]
            /\ cfg' = [cfg EXCEPT ![worktree_path] =
                          get_or_create_worktree(git_root, worktree_name, worktree_path,
                                                 port)]
            /\ UNCHANGED <<dirExists, registered, branches>>
       ELSE IF ~(add_ok /\ CanAddWorktree(worktree_name, worktree_path))
       THEN \* sys.exit("Error: Failed to create git worktree")
            /\ fcall' = [called EXCEPT
                           !.calls = <<Call("worktree_add", PathStr(worktree_path))>>,
                           !.result = <<>>, !.exited = TRUE]
            /\ UNCHANGED <<dirExists, registered, branches, cfg>>
       ELSE /\ fcall' = [called EXCEPT
                           !.calls = <<Call("worktree_add", PathStr(worktree_path))>>,
                           !.result = worktree_path]
            /\ dirExists' = [dirExists EXCEPT ![worktree_path] = TRUE]
            /\ registered' = registered \cup {worktree_path}
            /\ branches' = branches \cup {worktree_name}
            /\ cfg' = [cfg EXCEPT ![worktree_path] =
                          get_or_create_worktree(git_root, worktree_name, worktree_path,
                                                 port)]
    /\ UNCHANGED wt_else

NextWorktree ==
    \E worktree_name \in WtNames, port \in RandomPorts, add_ok \in BOOLEAN :
        WtGetOrCreate(worktree_name, port, add_ok)

SpecWorktree == InitWorktree /\ [][NextWorktree]_vars

\* the .git mounts a devcontainer.json holds
GitMounts(content, git_root) ==
    Cardinality({i \in DOMAIN content.mounts :
                    content.mounts[i] = git_mount(Append(git_root, ".git"))})

WtReturned == fcall.fn = "get_or_create_worktree" /\ fcall.at = "returned"

\* C26: when the worktree path is already there get_or_create_worktree returns
\* that path, runs no git worktree add, and leaves the directories, the
\* registered worktrees, the branches and every devcontainer.json (its
\* mounts included) as they were; so a second call in a row changes nothing
\* and does not exit.
C26_ExistingPathUntouched ==
    (WtReturned /\ fcall.existed) =>
        /\ ~fcall.exited
        /\ fcall.result = get_worktree_path(fcall.git_root, fcall.names[Len(fcall.names)])
        /\ fcall.calls = <<>>
        /\ WtState = fcall.before

\* the same name twice: the first call made the worktree with its one .git
\* mount, the second found it
C26_Witness ==
    /\ WtReturned /\ fcall.existed
    /\ Len(fcall.names) = 2 /\ fcall.names[1] = fcall.names[2]
    /\ fcall.names[1] \notin {Name(f) : f \in snap.registered}
    /\ GitMounts(cfg[fcall.result], fcall.git_root) = 1

----------------------------------------------------------------------------
(* What the log of a command shows.                                         *)

Count(op, tgt) == Cardinality({i \in DOMAIN log : log[i] = Call(op, tgt)})

Targets(op) == {log[i].tgt : i \in {j \in DOMAIN log : log[j].op = op}}

Mutations == {"stop", "rm", "worktree_remove", "rmi", "rmtree"}

Mutated == \E i \in DOMAIN log : log[i].op \in Mutations

Prompted == \E i \in DOMAIN log : log[i].op = "input"

SaidYes == \E i \in DOMAIN log : log[i].op = "input" /\ log[i].tgt \in {"y", "Y"}

InPrune == cmd.name = "prune"

PruneDone == InPrune /\ pc = "done"

\* the containers a prune looks at: all of them, or those of the project
InScope(f) == PruneIsGlobal(cmd) \/ f = Main \/ f \in WtFolders

SnapName(f) == snap.container[f].name

SnapOrphan(f) == snap.container[f].state = "running" /\ ~snap.dirExists[f]

SnapStopped(f) == snap.container[f].state = "exited"

SnapStale(f) == f \in snap.registered /\ ~snap.dirExists[f]

Listed(list, n) == \E i \in DOMAIN list : list[i][1] = n

SnapshotList == stopped_containers \o orphan_containers

SnapshotImages == {SnapshotList[i][3] : i \in DOMAIN SnapshotList} \ {""}

----------------------------------------------------------------------------
(* C1: an up without --new that observes the container running issues no   *)
(* start, reports that it reattaches and exits with status 0; it issues a   *)
(* start only when the running query did not report the container; in a     *)
(* row of up calls without --new on one folder at most one start brings the *)
(* container up and at most one creates a container, none if the folder had *)
(* one.                                                                     *)
InUp == cmd.name = "up" /\ ~cmd.new /\ ws # None

Starts == Cardinality({i \in DOMAIN log : log[i].op = "up"})

InStart == cmd.name \in {"up", "tree"} /\ ws # None

C1_UpReattaches ==
    /\ InUp =>
         /\ Count("is_running", "True") > 0 =>
               /\ Starts = 0
               /\ pc = "done" /\ exit = 0
               /\ Count("print", "Container already running, reattaching.") = 1
               /\ container[ws] = snap.container[ws]
         /\ Starts > 0 => Count("is_running", "False") = 1
         /\ Starts <= 1
    /\ streak.effective <= 1
    /\ streak.created <= (IF streak.had THEN 0 ELSE 1)

C1_Witness ==
    /\ InUp /\ pc = "done" /\ exit = 0
    /\ ncmd = 2
    /\ Count("is_running", "True") = 1
    /\ streak.starts = 1 /\ streak.effective = 1 /\ streak.created = 1

\* the claim as it stands: a running container means no start, and a row of
\* up calls issues at most one start
C1_AtMostOneStart ==
    /\ (InUp /\ snap.container[ws].state = "running") =>
          /\ Starts = 0
          /\ pc = "done" => exit = 0
    /\ streak.starts <= 1

(* C2: a confirmed prune sends stop only to orphans (running, folder        *)
(* missing), sends rm exactly once to each container of the initial         *)
(* stopped-or-orphan snapshot and to no other; a running container whose    *)
(* folder exists is neither stopped nor removed, and a stopped container    *)
(* gets no stop.                                                            *)
C2_PruneTargets ==
    InPrune =>
      /\ Targets("stop") \cup Targets("rm") \subseteq {SnapName(f) : f \in Folders}
      /\ \A f \in Folders :
           LET n == SnapName(f) IN
           /\ Count("stop", n) > 0 => SnapOrphan(f) /\ InScope(f)
           /\ Count("rm", n) > 0 =>
                 /\ SnapOrphan(f) \/ SnapStopped(f)
                 /\ InScope(f)
                 /\ Listed(SnapshotList, n)
           /\ Count("rm", n) <= 1
           /\ SnapStopped(f) => Count("stop", n) = 0
           /\ (snap.container[f].state = "running" /\ snap.dirExists[f]) =>
                 /\ Count("stop", n) = 0
                 /\ Count("rm", n) = 0
                 /\ container[f] = snap.container[f]
           /\ (pc = "done" /\ SaidYes /\ Listed(SnapshotList, n)) => Count("rm", n) = 1

C2_Witness ==
    /\ PruneDone /\ SaidYes
    /\ \E f, g, h \in Folders :
         /\ SnapOrphan(f) /\ Count("stop", SnapName(f)) = 1
         /\ Count("rm", SnapName(f)) = 1
         /\ SnapStopped(g) /\ Count("rm", SnapName(g)) = 1
         /\ snap.container[h].state = "running" /\ snap.dirExists[h]
         /\ container[h].state = "running"

(* C3: in a confirmed prune every orphan stop precedes every rm, every rm   *)
(* precedes every worktree removal, and every worktree removal precedes the *)
(* re-query of the containers and every image removal.                      *)
PhaseRank(i) ==
    CASE log[i].op = "stop" -> 1
      [] log[i].op = "rm" -> 2
      [] log[i].op = "worktree_remove" -> 3
      [] log[i].op = "ps" -> IF \E j \in 1..(i - 1) : log[j].op = "input" THEN 4 ELSE 0
      [] log[i].op = "rmi" -> 5
      [] OTHER -> 0

C3_PhaseOrder ==
    InPrune => \A i, j \in DOMAIN log : i < j => PhaseRank(i) <= PhaseRank(j)

C3_Witness ==
    /\ PruneDone
    /\ \A r \in 1..5 : \E i \in DOMAIN log : PhaseRank(i) = r

(* C4: a prune attempts to remove an image exactly when the image was       *)
(* referenced by a container of the initial snapshot and by no container    *)
(* the re-query returned; an image a surviving container references stays   *)
(* in the image store.                                                      *)
C4_ImagePrune ==
    InPrune =>
      /\ Targets("rmi") \subseteq SnapshotImages \ in_use_images
      /\ (pc = "done" /\ SaidYes) => Targets("rmi") = SnapshotImages \ in_use_images
      /\ \A id \in Images : Count("rmi", id) <= 1
      /\ \A f \in Folders :
           (container[f].state # "absent" /\ container[f].image # "")
              => container[f].image \in images

C4_Witness ==
    /\ PruneDone /\ SaidYes
    /\ \E id \in SnapshotImages : id \notin in_use_images /\ id \notin images
    /\ \E id \in SnapshotImages :
         /\ id \in in_use_images
         /\ Count("rmi", id) = 0
         /\ \E f \in Folders :
              /\ snap.container[f].image = id
              /\ container[f].state # "absent"
              /\ Count("rm", SnapName(f)) = 1

(* C5: with no stopped container, no orphan and no stale worktree in scope, *)
(* prune reports "Nothing to prune.", shows no prompt, issues no mutating   *)
(* command and returns 0.                                                   *)
C5_NothingToPrune ==
    (/\ InPrune
     /\ get_container_runtime # None
     /\ \A f \in Folders : InScope(f) => ~SnapOrphan(f) /\ ~SnapStopped(f)
     /\ ~PruneIsGlobal(cmd) => \A f \in WtFolders : ~SnapStale(f))
    => /\ pc = "done" /\ exit = 0
       /\ ~Prompted /\ ~Mutated
       /\ Count("print", "Nothing to prune.") = 1
       /\ Snapshot = snap

C5_Witness ==
    /\ PruneDone /\ ~PruneIsGlobal(cmd) /\ Count("print", "Nothing to prune.") = 1
    /\ container[Main].state = "running"
    /\ container[Other].state = "exited"
    /\ \E f \in WtFolders : dirExists[f] /\ container[f].state = "running"

(* C6: prune shows its prompt exactly once, before any mutating command,    *)
(* and skips it if and only if --yes was given.                             *)
C6_PromptUnlessYes ==
    InPrune =>
      /\ Cardinality({i \in DOMAIN log : log[i].op = "input"}) <= 1
      /\ \A i \in DOMAIN log : log[i].op \in Mutations =>
            (cmd.yes \/ \E j \in 1..(i - 1) : log[j].op = "input")
      /\ cmd.yes => ~Prompted /\ pc # "prune_prompt"

(* C7: in prune and in delete, once a confirmation prompt was answered with *)
(* anything other than y or Y, or was ended by an interrupt or end of       *)
(* input, the command has issued no stop, rm, worktree removal, image       *)
(* removal or directory deletion, it is over, and containers, worktrees,    *)
(* directories and images are as they were.                                 *)
InAsking == cmd.name \in {"prune", "delete"}

Inputs == {i \in DOMAIN log : log[i].op = "input"}

C7_DeclineMutatesNothing ==
    InAsking =>
      \A i \in Inputs :
         log[i].tgt \notin {"y", "Y"} =>
            /\ ~Mutated
            /\ pc = "done"
            /\ Snapshot = snap
            /\ \A j \in Inputs : j <= i

C7_Witness ==
    /\ cmd.name = "delete" /\ pc = "done"
    /\ Cardinality(Inputs) = 2
    /\ \E i \in Inputs : log[i].tgt = "Y"
    /\ \E i \in Inputs : log[i].tgt = "n"
    /\ ~Mutated
    /\ \E f \in Folders : container[f].state = "running"

\* the claim as it stands: only the answer y lets a mutation through
C7_OnlyLowercaseY ==
    InAsking => ((\E i \in Inputs : log[i].tgt # "y") => ~Mutated)

(* C8: answering no at the prompt of prune, at the prompts of delete or at  *)
(* the worktree-cascade prompt ends the command with status 0; answering no *)
(* at the port prompt of up or tree ends it with status 1, after the error  *)
(* message and without a start command.                                     *)
SaidNo ==
    \E i \in Inputs :
       /\ log[i].tgt # Interrupt
       /\ IF InAsking THEN log[i].tgt \notin {"y", "Y"}
          ELSE Lower(Strip(log[i].tgt)) \notin {"", "y", "yes"}

C8_DeclineExit ==
    SaidNo =>
      /\ pc = "done"
      /\ InAsking => exit = 0 /\ Count("print", "Cancelled.") = 1
      /\ InStart =>
            /\ exit = 1
            /\ Starts = 0
            /\ Count("print", "Error: Port is already in use.") = 1

C8_Witness ==
    /\ InStart /\ SaidNo /\ pc = "done" /\ exit = 1
    /\ cfg[ws].exists /\ ~is_port_available(cfg[ws].port)

\* the claim as it stands: every declined prompt ends in status 0
C8_DeclineAlwaysZero == (SaidNo /\ pc = "done") => exit = 0

(* C9: a confirmed prune is best-effort: whatever failed, each orphan got   *)
(* one stop, each snapshot container one rm, each stale worktree one        *)
(* removal, the containers were re-queried if an image was a candidate and  *)
(* each candidate image not in use got one rmi.                             *)
C9_BestEffort ==
    (PruneDone /\ SaidYes) =>
      /\ exit = 0
      /\ \A i \in DOMAIN orphan_containers : Count("stop", orphan_containers[i][1]) = 1
      /\ \A i \in DOMAIN SnapshotList : Count("rm", SnapshotList[i][1]) = 1
      /\ \A i \in DOMAIN stale_worktrees :
            Count("worktree_remove", PathStr(stale_worktrees[i][1])) = 1
      /\ SnapshotImages # {} => \E i \in DOMAIN log : PhaseRank(i) = 4
      /\ \A id \in SnapshotImages \ in_use_images : Count("rmi", id) = 1

C9_Witness ==
    /\ PruneDone /\ SaidYes /\ nfail = 1
    /\ Len(SnapshotList) >= 2
    /\ container[SnapshotList[1][2]].state # "absent"
    /\ container[SnapshotList[2][2]].state = "absent"
    /\ stale_worktrees # <<>>
    /\ Targets("rmi") # {}

(* C10: in a non-interactive up or tree whose configured port is occupied   *)
(* by something other than the folder's own running container, the port     *)
(* check does not let the command through to the start command.             *)
Occupied ==
    /\ read_port_from_devcontainer(ws) # NoPort
    /\ ~is_port_available(read_port_from_devcontainer(ws))

\* the folder's own running container publishes the configured port
OwnHolds ==
    /\ container[ws].state = "running"
    /\ container[ws].pub = read_port_from_devcontainer(ws)

C10_FailsClosed ==
    (InStart /\ ~cmd.tty /\ Occupied /\ ~(cmd.new /\ OwnHolds)) => pc # "dc_start"

(* C11: every start command that up, tree or spawn issues for a folder      *)
(* whose configuration holds a port comes after a bind probe of that port   *)
(* in the same command.                                                     *)
ProbedBefore(i, f) ==
    \E j \in 1..(i - 1) : log[j] = Call("bind", ToString(cfg[f].port))

StartsProbed ==
    \A i \in DOMAIN log :
       log[i].op = "up" =>
          \A f \in Folders :
             (PathStr(f) = log[i].tgt /\ read_port_from_devcontainer(f) # NoPort)
                => ProbedBefore(i, f)

C11_ProbeBeforeStart == cmd.name \in {"up", "tree", "spawn"} => StartsProbed

----------------------------------------------------------------------------
(* reassign_port by itself.                                                 *)

Returned == fcall.fn = "reassign_port" /\ fcall.at = "returned"

OldPort == CHOOSE old \in OldPorts : Str(old) = fcall.before.PORT

Holds(run_args, arg) == \E i \in DOMAIN run_args : run_args[i] = arg

(* C12: once reassign_port has returned a port Q other than the old one,    *)
(* PORT is str(Q), runArgs holds Q:Q and no longer holds old:old.           *)
C12_RoundTrip ==
    (Returned /\ fcall.new_port # OldPort) =>
       /\ fcall.config.PORT = Str(fcall.new_port)
       /\ Holds(fcall.config.runArgs, Publish(fcall.new_port, fcall.new_port))
       /\ ~Holds(fcall.config.runArgs, Publish(OldPort, OldPort))

(* C13: reassign_port rewrites the one runArgs element that follows -p and  *)
(* publishes the old port, and no other element.                            *)
C13_OneElement ==
    Returned =>
       /\ Len(fcall.config.runArgs) = Len(fcall.before.runArgs)
       /\ \A i \in DOMAIN fcall.before.runArgs :
             IF i > 1 /\ fcall.before.runArgs[i - 1] = FlagP
                /\ fcall.before.runArgs[i] = Publish(OldPort, OldPort)
             THEN fcall.config.runArgs[i] = Publish(fcall.new_port, fcall.new_port)
             ELSE fcall.config.runArgs[i] = fcall.before.runArgs[i]

(* C14: reassign_port comes to an end, by returning or by giving up.        *)
C14_ReassignEnds == <>(fcall.at \in {"returned", "failed"})

----------------------------------------------------------------------------
(* C15: every port in a configuration and every port probed lies in         *)
(* PORT_MIN..PORT_MAX, both ends included.                                  *)
InRange(p) == PORT_MIN <= p /\ p <= PORT_MAX

Probed == {log[i].tgt : i \in {j \in DOMAIN log : log[j].op = "bind"}}

C15_PortRange ==
    /\ \A f \in Folders : cfg[f].exists => InRange(cfg[f].port) /\ InRange(cfg[f].pub)
    /\ \A t \in Probed : \E p \in random_port : t = ToString(p)

C15_Witness ==
    /\ cmd.name = "up" /\ pc = "done" /\ exit = 0
    /\ cfg[Main].port = PORT_MAX /\ cfg[Main].pub = PORT_MAX
    /\ ToString(PORT_MAX) \in Probed
    /\ container[Main].state = "running" /\ container[Main].pub = PORT_MAX

\* the claim as it stands: PORT_MAX is never picked, written or probed
C15_BelowMax ==
    /\ \A f \in Folders : cfg[f].exists => cfg[f].port < PORT_MAX /\ cfg[f].pub < PORT_MAX
    /\ ToString(PORT_MAX) \notin Probed

(* C16: in every configuration the stored port and the published port are  *)
(* the same: PORT is str(p) and the -p argument is p:p.                     *)
C16_PortsAgree == \A f \in Folders : cfg[f].exists => cfg[f].port = cfg[f].pub

----------------------------------------------------------------------------
(* C17: spawn's names are 1-p .. n-p in order with --prefix p; the i-th     *)
(* workspace gets the port base_port + (i - 1), so the ports increase       *)
(* strictly; without a prefix the name is <i>-<suffix>, the suffixes are    *)
(* pairwise distinct, and a suffix is spawn-<i> only after every attempt    *)
(* drew a name already used.                                                *)
NamesReturned == fcall.fn = "worktree_names" /\ fcall.at = "returned"

----------------------------------------------------------------------------
(* C18: when spawn launches its containers, no two of its workspaces'       *)
(* configurations carry the same --name or publish the same host port.      *)
SpawnFolders == {worktree_paths[k] : k \in 1..cmd.count}

C18_DistinctAtLaunch ==
    (cmd.name = "spawn" /\ pc = "spawn_wait") =>
       \A f, g \in SpawnFolders :
          f # g => /\ cfg[f].name # cfg[g].name
                   /\ cfg[f].pub # cfg[g].pub

----------------------------------------------------------------------------
(* C19: spawn launches all n processes before it waits on any; a process    *)
(* that exits non-zero keeps none of the others from being launched or      *)
(* waited on; whatever the order the processes end in, each workspace has   *)
(* exactly one outcome, Ready or Failed, and it is the one of its process.  *)
Ops(op) == {i \in DOMAIN log : log[i].op = op}

Outcomes(said, path) == {i \in DOMAIN log : log[i] = Call("print", said \o Name(path))}

SpawnWaited == cmd.name = "spawn" /\ pc = "done" /\ processes # <<>>

C19_LaunchAllThenWait ==
    cmd.name = "spawn" =>
       /\ \A i \in Ops("communicate"), j \in Ops("up") : j < i
       /\ Ops("communicate") # {} => Len(processes) = cmd.count
       /\ SpawnWaited =>
             /\ Cardinality(Ops("up")) = cmd.count
             /\ Cardinality(Ops("communicate")) = cmd.count
             /\ \A k \in 1..cmd.count :
                   LET path == worktree_paths[k]
                       bad == processes[k].returncode # 0
                   IN /\ processes[k].path = path
                      /\ Cardinality(Outcomes("Failed: ", path)) = (IF bad THEN 1 ELSE 0)
                      /\ Cardinality(Outcomes("Ready: ", path)) = (IF bad THEN 0 ELSE 1)

\* the first process failed, the second did not, and both were waited for
C19_Witness ==
    /\ SpawnWaited /\ cmd.count = 2
    /\ processes[1].returncode = 1 /\ processes[2].returncode = 0
    /\ failed = <<Name(processes[1].path)>>

----------------------------------------------------------------------------
(* The end of spawn by itself.                                              *)

FanReturned ==
    fcall.fn = "spawn_tmux_multipane" /\ fcall.at \in {"returned", "failed"} /\ fcall.prompt

\* a window was created and the agent command for this folder sent to it
Windowed(path) ==
    \E i, j \in DOMAIN fcall.tmux :
       /\ fcall.tmux[i].op \in {"new-session", "new-window"}
       /\ fcall.tmux[j].op = "send-keys"
       /\ fcall.tmux[j].name = fcall.tmux[i].name
       /\ fcall.tmux[j].folder = path

(* C20: after the wait phase of a spawn with a prompt, a workspace has a    *)
(* window and an agent command if and only if its start process exited 0;   *)
(* the path list and the name list handed to the fan-out are equally long   *)
(* and the i-th name is the directory name of the i-th path.                *)
C20_WindowIffStarted ==
    FanReturned =>
       /\ \A k \in DOMAIN fcall.all_paths :
             Windowed(fcall.all_paths[k]) <=> fcall.returncodes[k] = 0
       /\ Len(fcall.worktree_paths) = Len(fcall.worktree_names)
       /\ \A i \in DOMAIN fcall.worktree_paths :
             fcall.worktree_names[i] = DirName(fcall.worktree_paths[i])

----------------------------------------------------------------------------
(* C21: find_containers_for_project(git_root, state_filter) returns, in the *)
(* order of list_all_devcontainers, exactly the rows whose folder is        *)
(* git_root or whose folder's parent directory is named                     *)
(* <git_root.name>-worktrees, and of these only the rows in state           *)
(* state_filter when one is given; a row whose folder is the checkout of    *)
(* another project is never among them.                                     *)
Checkouts == {Main, Other, TwinMain}

OfProject(row, git_root) ==
    \/ row[2] = git_root
    \/ /\ Len(row[2]) > 1
       /\ row[2][Len(row[2]) - 1] = Name(git_root) \o "-worktrees"

C21_FindForProject ==
    \A git_root \in {Main, Other}, state_filter \in {None, "running", "exited"} :
       LET found == find_containers_for_project(git_root, state_filter, TRUE)
           rows == list_all_devcontainers(TRUE)
       IN /\ found = SelectSeq(rows, LAMBDA row :
                        /\ OfProject(row, git_root)
                        /\ state_filter \in {None, row[3]})
          /\ \A i \in DOMAIN found : found[i][2] \notin Checkouts \ {git_root}

\* a project delete has read the project's containers: several rows, none
\* of them the other project's container, which exists
C21_Witness ==
    /\ cmd.name = "delete" /\ pc = "delete_stop"
    /\ Len(containers) >= 2
    /\ snap.container[Other].state = "exited"
    /\ \A i \in DOMAIN containers : containers[i][2] # Other

----------------------------------------------------------------------------
(* C22: a prune scoped to a project and a delete of a project, for the      *)
(* project with git root P, stop and remove only containers whose folder    *)
(* is P or lies in <parent(P)>/<name(P)>-worktrees; the container of        *)
(* another project, also one of the same directory name under another       *)
(* parent, is neither stopped nor removed.                                  *)
ScopedPrune == cmd.name = "prune" /\ ~PruneIsGlobal(cmd)

\* _delete_project past its worktrees
ProjectDelete ==
    /\ cmd.name = "delete"
    /\ pc \in {"delete_containers", "delete_stop", "delete_rm", "delete_purge"}

OwnFolders(P) ==
    {f \in Folders :
        f = P \/ Parent(f) = Append(Parent(P), Name(P) \o "-worktrees")}

Untouched(f) ==
    snap.container[f].state # "absent" =>
       /\ Count("stop", SnapName(f)) = 0
       /\ Count("rm", SnapName(f)) = 0
       /\ container[f] = snap.container[f]

C22_ProjectScope ==
    /\ ScopedPrune => \A f \in Folders \ OwnFolders(find_git_root(cmd.cwd)) : Untouched(f)
    /\ ProjectDelete => \A f \in Folders \ OwnFolders(selected.git_root) : Untouched(f)

----------------------------------------------------------------------------
(* C23: with no container runtime, prune and delete (of a worktree or of a  *)
(* project) change nothing - no worktree is removed, no directory purged -  *)
(* and, unless the user declined at a prompt, end with a non-zero status.   *)
NoRuntime == runtime = None /\ cmd.name \in {"prune", "delete"}

Declined ==
    \E i \in DOMAIN log : log[i].op \in {"input", "pick"} /\ log[i].tgt \notin {"y", "Y"}

C23_NoRuntimeFailsFirst ==
    NoRuntime =>
       /\ ~Mutated
       /\ dirExists = snap.dirExists /\ registered = snap.registered
       /\ (pc = "done" /\ ~Declined) => exit = 1

----------------------------------------------------------------------------
(* C24: with no runtime none of the container operations raises or starts   *)
(* a runtime process: the listings return the empty list, the lookup of a   *)
(* workspace's container returns nothing, the running test is false, and    *)
(* stop, remove and remove-image return false.                              *)
OpReturned == fcall.fn \in OpNames /\ fcall.at = "returned"

EmptyResult ==
    CASE fcall.fn \in {"list_all_devcontainers", "find_containers_for_project"} ->
            fcall.out.result = <<>>
      [] fcall.fn = "get_container_for_workspace" -> fcall.out.result = None
      [] OTHER -> fcall.out.result = FALSE

C24_AbsenceNeverRaises ==
    (OpReturned /\ runtime = None) => fcall.out.calls = <<>> /\ EmptyResult

\* stop was asked for a workspace whose container the table holds, with no
\* runtime to ask
C24_Witness ==
    /\ OpReturned /\ runtime = None
    /\ fcall.fn = "stop_container"
    /\ container[fcall.workspace_dir].state = "running"

----------------------------------------------------------------------------
(* C25: find_stale_worktrees returns exactly the registered worktrees,      *)
(* never the main checkout, whose path does not exist when it is called: a  *)
(* worktree whose directory was deleted is in the result, and is in it no   *)
(* more once the directory is back.                                         *)
StaleReturned == fcall.fn = "find_stale_worktrees" /\ fcall.at = "returned"

Reported(k) == {fcall.returned[k][i][1] : i \in DOMAIN fcall.returned[k]}

C25_StaleExactly ==
    StaleReturned =>
       LET k == Len(fcall.returned)
       IN /\ Reported(k) = {f \in registered : f # Main /\ ~dirExists[f]}
          /\ Len(fcall.returned[k]) = Cardinality(Reported(k))
          /\ \A i \in DOMAIN fcall.returned[k] :
                fcall.returned[k][i][2] = Name(fcall.returned[k][i][1])

\* a worktree was not reported, then reported, then not reported again
C25_Witness ==
    /\ StaleReturned /\ Len(fcall.returned) = 3
    /\ \E f \in WtFolders :
          f \notin Reported(1) /\ f \in Reported(2) /\ f \notin Reported(3)

\* C27: whenever tree or spawn has issued the start command for a worktree
\* workspace, that workspace's devcontainer.json holds a bind mount of the
\* main repository's .git directory, with --sync as without.
C27_GitMountAtStart ==
    cmd.name \in {"tree", "spawn"} =>
        \A i \in DOMAIN log :
            log[i].op = "up" =>
                \A f \in WtFolders :
                    PathStr(f) = log[i].tgt => GitMounts(cfg[f], Main) >= 1

\* C28: a rewrite of an existing devcontainer.json keeps every key, and
\* every value other than the ones it is meant to change: after reassign_port
\* the document has the keys it had, and every runArgs element other than the
\* value that published the old port is as it was.
C28_RestKept ==
    Returned =>
       /\ DOMAIN fcall.config = DOMAIN fcall.before
       /\ DOMAIN fcall.config.runArgs = DOMAIN fcall.before.runArgs
       /\ \A i \in DOMAIN fcall.before.runArgs :
             fcall.before.runArgs[i] # Publish(OldPort, OldPort) =>
                fcall.config.runArgs[i] = fcall.before.runArgs[i]

\* the worktrees of the project whose directory has the name asked for
NamedWorktrees == {f \in snap.registered : Name(f) = cmd.target}

\* C30: delete with a bare name resolves only to the worktree of the current
\* project whose directory has that name: the main checkout is never
\* selected, every stop and every worktree removal issued is that worktree's,
\* and when no worktree has the name the command exits non-zero without a
\* stop or a removal.
C30_NameResolvesWorktree ==
    (cmd.name = "delete" /\ cmd.target \in NamedTargets) =>
       /\ pc \in {"delete_confirm", "delete_worktree"} =>
             selected.path # Main /\ selected.path \in NamedWorktrees
       /\ \A i \in DOMAIN log :
             log[i].op \in {"stop", "rm", "worktree_remove"} =>
                \E f \in NamedWorktrees :
                   log[i].tgt \in {PathStr(f), snap.container[f].name}
       /\ (pc = "done" /\ NamedWorktrees = {}) =>
             exit = 1 /\ \A i \in DOMAIN log : log[i].op \notin Mutations

\* a delete whose target is a path: the deletion of a project
ProjectTarget == cmd.name = "delete" /\ IsPathArg(cmd.target)

\* the answers y given before the i-th call
YesBefore(i) ==
    Cardinality({j \in 1..(i - 1) : log[j].op = "input" /\ log[j].tgt \in {"y", "Y"}})

C32_WorktreeAndContainerGone ==
    (/\ cmd.name = "delete" /\ pc = "done" /\ nfail = 0
     /\ \E i \in DOMAIN log : log[i].op = "worktree_remove") =>
        \A f \in WtFolders :
            (\E i \in DOMAIN log : log[i] = Call("worktree_remove", PathStr(f))) =>
                f \notin registered /\ container[f].state = "absent"

WsReturned == fcall.fn = "find_project_workspaces" /\ fcall.at = "returned"

\* the paths find_project_workspaces returned after its first entry
WsAdded == {fcall.returned[i][1] : i \in 2..Len(fcall.returned)}

\* the entries of git worktree list other than git_root
WsLinked ==
    {w[1] : w \in {list_worktrees(fcall.git_root, fcall.git_ok)[i] :
                      i \in DOMAIN list_worktrees(fcall.git_root, fcall.git_ok)}}
        \ {fcall.git_root}

\* C33: find_project_workspaces returns (git_root, "main") first and never
\* git_root again; after it come the other entries of the worktree list, once
\* each, if the sibling <name>-worktrees directory exists, and nothing if it
\* does not.
C33_MainFirstThenWorktrees ==
    WsReturned =>
       /\ fcall.returned[1] = <<fcall.git_root, "main">>
       /\ fcall.git_root \notin WsAdded
       /\ WsAdded = (IF fcall.worktrees_dir THEN WsLinked ELSE {})
       /\ Len(fcall.returned) = 1 + Cardinality(WsAdded)

\* with the directory there the two worktrees follow the main entry
C33_Witness ==
    /\ WsReturned /\ fcall.worktrees_dir /\ fcall.git_root = Main
    /\ Len(fcall.returned) = 3

\* worktrees are registered and the directory is not there: the main entry
\* alone
C33_WitnessAlone ==
    /\ WsReturned /\ ~fcall.worktrees_dir /\ registered # {}
    /\ Len(fcall.returned) = 1

\* C34: spawn_tmux_multipane, handed k >= 1 workspaces, issues kill-session,
\* then new-session, then for each workspace in list order the creation of
\* its window (new-session for the first, new-window for the others) followed
\* by its send-keys, then attach, and so creates exactly k windows; handed
\* none it issues no tmux command.
C34_FanoutOrder ==
    (fcall.fn = "spawn_tmux_multipane" /\ fcall.at = "returned" /\ fcall.prompt) =>
       LET k == Len(fcall.worktree_paths)
           t == fcall.tmux
       IN IF k = 0 THEN t = <<>>
          ELSE /\ Len(t) = 2 * k + 2
               /\ t[1].op = "kill-session"
               /\ t[2 * k + 2].op = "attach"
               /\ \A i \in 1..k :
                     /\ t[2 * i] = TmuxCall(IF i = 1 THEN "new-session" ELSE "new-window",
                                            fcall.worktree_names[i], <<>>)
                     /\ t[2 * i + 1] = TmuxCall("send-keys", fcall.worktree_names[i],
                                                fcall.worktree_paths[i])
               /\ Cardinality({i \in DOMAIN t : t[i].op \in {"new-session", "new-window"}})
                     = k

\* three workspaces were handed over and have their windows
C34_Witness ==
    /\ fcall.fn = "spawn_tmux_multipane" /\ fcall.at = "returned" /\ fcall.prompt
    /\ Len(fcall.worktree_paths) = MaxCount
    /\ Len(fcall.tmux) = 2 * MaxCount + 2

\* C35: reassign_port returns the last port it drew.  That port's probe
\* succeeded; every port whose probe failed earlier in the call is not the
\* port returned and is not written; the PORT written is the port returned,
\* and every runArgs element the call changed publishes the port returned.
C35_ReturnsLastDraw ==
    Returned =>
       /\ fcall.new_port \notin foreign
       /\ fcall.new_port \notin fcall.rejected
       /\ fcall.rejected \subseteq foreign
       /\ fcall.config.PORT = Str(fcall.new_port)
       /\ \A i \in DOMAIN fcall.config.runArgs :
             fcall.config.runArgs[i] # fcall.before.runArgs[i] =>
                fcall.config.runArgs[i] = Publish(fcall.new_port, fcall.new_port)

\* two ports were drawn and failed their probe before the port returned
C35_Witness ==
    Returned /\ Cardinality(fcall.rejected) = 2 /\ fcall.new_port \notin fcall.rejected

\* C36: the list of deletable worktrees of a delete never holds the main
\* checkout, whichever git root the delete resolved, and so the deletion of a
\* project neither stops the main checkout's container as that of a worktree
\* nor asks git to remove the main checkout.
C36_MainNotDeletable ==
    cmd.name = "delete" =>
       /\ \A i \in DOMAIN wt_list : wt_list[i][1] # Main
       /\ \A i \in DOMAIN log : log[i] # Call("worktree_remove", PathStr(Main))

\* the places of a process's events in the order they happened
At(p, what) == {i \in DOMAIN fcall.events : fcall.events[i] = <<p, what>>}

\* one invocation ended before the other began
OneAfterTheOther ==
    \E p, q \in Procs :
       p # q /\ \A i \in DOMAIN fcall.events, j \in DOMAIN fcall.events :
                   (fcall.events[i][1] = p /\ fcall.events[j][1] = q) => i < j

----------------------------------------------------------------------------
(* commands.py run_prune_mode run twice in a row on one project, nothing    *)
(* else touching the machine in between.  What the first run did is kept    *)
(* when its process exits, for the second run to be judged against.         *)

\* the most prune commands of one run
MaxPrunes == 2

\* every stop, container removal and worktree removal of the log took effect
Effective ==
    \A i \in DOMAIN log :
       /\ log[i].op = "stop" =>
             \A f \in Folders : container[f].name = log[i].tgt => container[f].state # "running"
       /\ log[i].op = "rm" => \A f \in Folders : container[f].name # log[i].tgt
       /\ log[i].op = "worktree_remove" =>
             \A f \in registered : PathStr(f) # log[i].tgt

\* the prune process exits; the next prune starts from a fresh process
PruneReturn ==
    /\ pc = "done"
    /\ cmd.name = "prune"
    /\ fcall' = [fn |-> "prune",
                 project |-> ~PruneIsGlobal(cmd),
                 confirmed |-> \E i \in DOMAIN log :
                                  log[i].op = "input" /\ Confirmed(log[i].tgt),
                 did |-> {log[i].op : i \in DOMAIN log},
                 succeeded |-> Effective,
                 faultless |-> nfail = 0]
    /\ pc' = "idle"
    /\ cmd' = [name |-> "none"]
    /\ NoLocals
    /\ log' = <<>>
    /\ exit' = "none"
    /\ nfail' = 0
    /\ snap' = Snapshot
    /\ UNCHANGED <<world, ncmd, deleteLocals, spawnLocals, streak>>

\* the project's own containers and worktrees, all built from one image; the
\* other project has no container
InitAgain ==
    /\ InitPrune
    /\ runtime = "docker"
    /\ container[Other] = Absent
    /\ \A f \in Folders : container[f].image # "img2"

NextAgain == PruneStart(MaxPrunes, {Main}) \/ PruneStep \/ PruneReturn

SpecAgain == InitAgain /\ [][NextAgain]_vars

\* the second prune of the project is under way or over
SecondPrune ==
    /\ fcall.fn = "prune"
    /\ fcall.project /\ fcall.confirmed /\ fcall.succeeded
    /\ cmd.name = "prune"
    /\ ~PruneIsGlobal(cmd)

\* it computed three empty sets and said so
ReportedNothing ==
    /\ pc = "done"
    /\ exit = 0
    /\ log # <<>>
    /\ log[Len(log)] = Call("print", "Nothing to prune.")
    /\ ~Mutated /\ ~Prompted
    /\ stopped_containers = <<>> /\ orphan_containers = <<>> /\ stale_worktrees = <<>>

\* C38 as written: after a confirmed project prune whose every stop, container
\* removal and worktree removal succeeded, the next prune of the project
\* reports nothing to prune
C38_ConvergesAsWritten == SecondPrune => ReportedNothing

\* C38: after a confirmed project prune in which every external call
\* succeeded, the queries of the three-way diff included, the next prune of the
\* project computes three empty sets and reports nothing to prune
C38_PruneConverges == SecondPrune /\ fcall.faultless => ReportedNothing

C38_Witness ==
    /\ SecondPrune /\ fcall.faultless
    /\ {"stop", "rm", "worktree_remove"} \subseteq fcall.did
    /\ ReportedNothing

\* the step is the start of an up or a tree without --sync
PlainStart == pc = "idle" /\ cmd'.name \in {"up", "tree"} /\ ~cmd'.sync

\* the step is reassign_port after the operator's consent at the prompt
ConsentedReassign(f) ==
    /\ pc = "dc_prompt" /\ pc' = "dc_start"
    /\ cmd.tty
    /\ f = ws
    /\ log'[Len(log)+1].op = "input"
    /\ Lower(Strip(log'[Len(log)+1].tgt)) \in {"", "y", "yes"}

\* the step is spawn's port assignment, or its sync with the port given
SpawnAssigns(f) ==
    /\ pc = "spawn_create"
    /\ todo # <<>>
    /\ f = get_worktree_path(find_git_root(cmd.cwd), Head(todo))
    /\ cfg'[f].port = base_port + (cmd.count - Len(todo))

PortMoves(f) == cfg[f].exists /\ cfg'[f].port # cfg[f].port

PublishMoves(f) == cfg[f].exists /\ cfg'[f].pub # cfg[f].pub

\* C39: once a workspace's config exists, an up or tree without --sync changes
\* neither its containerEnv.PORT nor its -p value, and no step changes either
\* of them except reassign_port after consent at the prompt, sync given an
\* explicit port, and spawn's port assignment
C39_PortStable ==
    [][\A f \in Folders :
          /\ PlainStart => ~PortMoves(f) /\ ~PublishMoves(f)
          /\ PortMoves(f) \/ PublishMoves(f) =>
                ConsentedReassign(f) \/ SpawnAssigns(f)]_vars

\* the same for containerEnv.PORT alone
C39_PortKept ==
    [][\A f \in Folders :
          /\ PlainStart => ~PortMoves(f) /\ ~PublishMoves(f)
          /\ PortMoves(f) => ConsentedReassign(f) \/ SpawnAssigns(f)]_vars

----------------------------------------------------------------------------
(* commands.py run_spawn_mode, the wait over the launched processes by      *)
(* itself.  Every child was started with stdout and stderr as pipes and     *)
(* writes its output piece by piece; a pipe holds PipeCap pieces and a      *)
(* write to a full pipe blocks until the pipe is read.  A child exits when  *)
(* it has written all its output.  proc.communicate() reads both pipes of   *)
(* the one child it waits on until both are closed and empty; the pipes of  *)
(* the other children are not read meanwhile.                               *)

Streams == {"stdout", "stderr"}

\* the pieces a pipe holds before a write blocks
PipeCap == 1

\* the most pieces a child writes
MaxOutput == 2

\* the processes of the list, in launch order
Children == 1..2

\* what a child is going to write, piece by piece
Scripts == UNION {[1..n -> Streams] : n \in 0..MaxOutput}

\* variant: proc.wait(), which reads nothing
ReadNothing(level) == level

\* proc.communicate(): what a pipe holds once it has been read
ReadAll(level) == 0

InitPipes ==
    /\ runtime = "docker"
    /\ foreign = {}
    /\ container = [f \in Folders |-> Absent]
    /\ images = Images
    /\ dirExists = [f \in Folders |-> f \in {Main, Other}]
    /\ registered = {} /\ branches = {}
    /\ cfg = [f \in Folders |-> NoCfg]
    /\ pc = "idle" /\ cmd = [name |-> "none"]
    /\ stopped_containers = <<>> /\ orphan_containers = <<>> /\ stale_worktrees = <<>>
    /\ potential_images = {} /\ in_use_images = {}
    /\ todo = <<>> /\ log = <<>> /\ exit = "none" /\ nfail = 0 /\ snap = Snapshot
    /\ ncmd = 0 /\ streak = NoStreak
    /\ processes = <<>> /\ failed = <<>>
    /\ ws = None /\ selected = None /\ wt_list = <<>> /\ containers = <<>>
    /\ \E output \in [Children -> Scripts] :
          fcall = [fn |-> "run_spawn_mode",
                   at |-> "waiting",
                   output |-> output,
                   pipe |-> [i \in Children |-> [s \in Streams |-> 0]],
                   exited |-> [i \in Children |-> FALSE],
                   returncode |-> [i \in Children |-> 0],
                   proc |-> 1,
                   outcomes |-> <<>>,
                   failed |-> <<>>,
                   stalled |-> {}]

\* the child's next write would block
Blocked(i) ==
    /\ ~fcall.exited[i]
    /\ fcall.output[i] # <<>>
    /\ fcall.pipe[i][Head(fcall.output[i])] >= PipeCap

\* a child writes its next piece, if the pipe has room
ChildWrite(i) ==
    /\ fcall.fn = "run_spawn_mode"
    /\ ~fcall.exited[i]
    /\ fcall.output[i] # <<>>
    /\ ~Blocked(i)
    /\ fcall' = [fcall EXCEPT !.pipe[i][Head(fcall.output[i])] = @ + 1,
                              !.output[i] = Tail(@)]
    /\ UNCHANGED everything_else

\* a child that has written everything exits and its pipes are closed
ChildExit(i, returncode) ==
    /\ fcall.fn = "run_spawn_mode"
    /\ ~fcall.exited[i]
    /\ fcall.output[i] = <<>>
    /\ fcall' = [fcall EXCEPT !.exited[i] = TRUE, !.returncode[i] = returncode]
    /\ UNCHANGED everything_else

\* the later children that cannot write at this moment
StalledNow == {j \in Children : j > fcall.proc /\ Blocked(j)}

\* stdout, stderr = proc.communicate(): a pipe of the awaited child is read
Communicate(s) ==
    /\ fcall.fn = "run_spawn_mode" /\ fcall.at = "waiting"
    /\ fcall.proc \in Children
    /\ fcall.pipe[fcall.proc][s] > 0
    /\ fcall' = [fcall EXCEPT !.pipe[fcall.proc][s] = ReadAll(@),
                              !.stalled = @ \cup StalledNow]
    /\ UNCHANGED everything_else

\* proc.communicate() returns: the child has exited and nothing is left to
\* read; if proc.returncode != 0: failed.append(path.name), Failed, else Ready
CommunicateReturn ==
    /\ fcall.fn = "run_spawn_mode" /\ fcall.at = "waiting"
    /\ fcall.proc \in Children
    /\ fcall.exited[fcall.proc]
    /\ \A s \in Streams : fcall.pipe[fcall.proc][s] = ReadAll(fcall.pipe[fcall.proc][s])
    /\ LET bad == fcall.returncode[fcall.proc] # 0 IN
       fcall' = [fcall EXCEPT
                   !.outcomes = Append(@, <<fcall.proc, IF bad THEN "Failed" ELSE "Ready">>),
                   !.failed = IF bad THEN Append(@, fcall.proc) ELSE @,
                   !.stalled = @ \cup StalledNow,
                   !.proc = @ + 1]
    /\ UNCHANGED everything_else

\* the loop is over: if failed: Warning; the count of running containers
WaitOver ==
    /\ fcall.fn = "run_spawn_mode" /\ fcall.at = "waiting"
    /\ fcall.proc \notin Children
    /\ fcall' = [fcall EXCEPT !.at = "reported"]
    /\ UNCHANGED everything_else

ChildStep(i) == ChildWrite(i) \/ \E returncode \in {0, 1} : ChildExit(i, returncode)

ParentStep == (\E s \in Streams : Communicate(s)) \/ CommunicateReturn \/ WaitOver

NextPipes == (\E i \in Children : ChildStep(i)) \/ ParentStep

\* the operating system runs every process that can run
SpecPipes ==
    /\ InitPipes
    /\ [][NextPipes]_vars
    /\ WF_vars(ParentStep)
    /\ \A i \in Children : WF_vars(ChildStep(i))

\* an outcome is recorded for every launched process, its own
Recorded ==
    /\ fcall.at = "reported"
    /\ Len(fcall.outcomes) = Cardinality(Children)
    /\ \A i \in Children :
          fcall.outcomes[i] = <<i, IF fcall.returncode[i] # 0 THEN "Failed" ELSE "Ready">>

\* C40: spawn's wait phase terminates with an outcome recorded for every
\* launched process, also when a later child is blocked writing to a full pipe
\* while an earlier child is waited on
C40_WaitTerminates == <>Recorded

\* the second child stood blocked on a full pipe while the first was waited
\* on, and the wait is over
C40_Witness == Recorded /\ 2 \in fcall.stalled


====
